---- MODULE Spec2Model ----
(***************************************************************************)
(* Model of the numeric core of toulligqc/plotly_graph_common.py:          *)
(* _precompute_boxplot_values, _over_time_graph (binning, percentiles,     *)
(* Gaussian smoothing, figure), _smooth_data and its callers,              *)
(* _interpolate, _barcode_boxplot_graph, _pie_chart_graph and              *)
(* _format_float; of the barcode pie charts, read_quality_multiboxplot,    *)
(* all_scatterplot, the flowcell layout and plot_performance of            *)
(* toulligqc/plotly_graph_generator.py; of ToulligqcExtractor.extract; and *)
(* of the barcode selection of basecalling_stat_plotter1D.                 *)
(*                                                                         *)
(* Floating point values are records [k, v]: k = "fin" with the value v,   *)
(* k = "nan" (v = 0), or k = "inf" with v the sign.  Finite values are     *)
(* exact rationals held as integers over a unit that each definition       *)
(* states (quarters, eighths, ...), so that quantile interpolation and     *)
(* linspace are computed without rounding.                                 *)
(***************************************************************************)
EXTENDS Integers, Sequences, FiniteSets, TLC

VARIABLES pc, args, ret, env

vars == <<pc, args, ret, env>>

----------------------------------------------------------------------------
(* Floating point values *)

NaN == [k |-> "nan", v |-> 0]

Fin(n) == [k |-> "fin", v |-> n]

Inf(s) == [k |-> "inf", v |-> s]

(* None: an argument left at its default, an option that is not set *)
None == [k |-> "none", v |-> 0]

IsNaN(f) == f.k = "nan"

IsFin(f) == f.k = "fin"

Range(s) == {s[i] : i \in DOMAIN s}

RECURSIVE SeqsUpTo(_, _)
(* all sequences over S of length 0..n *)
SeqsUpTo(S, n) ==
    IF n = 0 THEN {<<>>}
    ELSE LET shorter == SeqsUpTo(S, n - 1)
         IN  shorter \cup {Append(s, e) : s \in {q \in shorter : Len(q) = n - 1}, e \in S}

RECURSIVE SumSeq(_)
SumSeq(s) == IF s = <<>> THEN 0 ELSE Head(s) + SumSeq(Tail(s))

(* builtin min() / max() of Python over a non-empty sequence of integers:  *)
(* a left-to-right scan that keeps the first extreme item.                 *)
RECURSIVE PyMinFrom(_, _)
PyMinFrom(best, s) ==
    IF s = <<>> THEN best
    ELSE PyMinFrom(IF Head(s) < best THEN Head(s) ELSE best, Tail(s))

PyMin(s) == PyMinFrom(Head(s), Tail(s))

RECURSIVE PyMaxFrom(_, _)
PyMaxFrom(best, s) ==
    IF s = <<>> THEN best
    ELSE PyMaxFrom(IF Head(s) > best THEN Head(s) ELSE best, Tail(s))

PyMax(s) == PyMaxFrom(Head(s), Tail(s))

(* the two-argument forms max(a, b) and min(a, b) *)
Max2(a, b) == IF b > a THEN b ELSE a

Min2(a, b) == IF b < a THEN b ELSE a

RECURSIVE InsertSorted(_, _)
InsertSorted(e, s) ==
    IF s = <<>> THEN <<e>>
    ELSE IF e <= Head(s) THEN <<e>> \o s
    ELSE <<Head(s)>> \o InsertSorted(e, Tail(s))

RECURSIVE SortAsc(_)
(* ascending sort of a sequence of integers *)
SortAsc(s) == IF s = <<>> THEN <<>> ELSE InsertSorted(Head(s), SortAsc(Tail(s)))

----------------------------------------------------------------------------
(* Series.dropna(): the non-NaN values, as integers, in their order *)

RECURSIVE DropNa(_)
DropNa(s) ==
    IF s = <<>> THEN <<>>
    ELSE IF IsNaN(Head(s)) THEN DropNa(Tail(s))
    ELSE <<Head(s).v>> \o DropNa(Tail(s))

(* Order statistics are taken on the sorted values. *)
QuantileUnsorted(s, q4) ==
    LET pos4 == (Len(s) - 1) * q4
        lo   == pos4 \div 4
        r    == pos4 % 4
        hi   == IF r = 0 THEN lo ELSE lo + 1
    IN  4 * s[lo + 1] + r * (s[hi + 1] - s[lo + 1])

(* Interpolation method 'lower': the order statistic below the position. *)
QuantileLower(s, q4) ==
    LET a    == SortAsc(s)
        pos4 == (Len(a) - 1) * q4
    IN  4 * a[(pos4 \div 4) + 1]

(* Series.quantile(q) and np.percentile(a, 100 q) for q = q4 / 4, linear    *)
(* interpolation between order statistics; s is a non-empty sequence of    *)
(* integers and the result is in quarters.                                 *)
Quantile(s, q4) ==
    LET a    == SortAsc(s)
        pos4 == (Len(a) - 1) * q4
        lo   == pos4 \div 4
        r    == pos4 % 4
        hi   == IF r = 0 THEN lo ELSE lo + 1
    IN  4 * a[lo + 1] + r * (a[hi + 1] - a[lo + 1])

(* The record of _precompute_boxplot_values(y).  Every field but notchspan *)
(* is in eighths; notchspan = 1.57 * iqr / sqrt(len(y)) is kept as the     *)
(* pair (157 * iqr in eighths, len(y)), i.e. it is num / (800 sqrt(root)). *)
ZeroBox ==
    [min |-> 0, lowerfence |-> 0, q1 |-> 0, median |-> 0, q3 |-> 0,
     upperfence |-> 0, max |-> 0, notchspan |-> [num |-> 0, root |-> 1]]

(* The fences as the textbook has them, not clipped to the data. *)
BoxOfUnclipped(y) ==
    LET q1 == 2 * Quantile(y, 1)
        q3 == 2 * Quantile(y, 3)
        iqr == q3 - q1
    IN  [min |-> 8 * PyMin(y),
         lowerfence |-> q1 - (3 * iqr) \div 2,
         q1 |-> q1,
         median |-> 2 * Quantile(y, 2),
         q3 |-> q3,
         upperfence |-> q3 + (3 * iqr) \div 2,
         max |-> 8 * PyMax(y),
         notchspan |-> [num |-> 157 * iqr, root |-> Len(y)]]

(* The non-empty branch; y is the sample after dropna(). *)
BoxOf(y) ==
    LET q1 == 2 * Quantile(y, 1)
        q3 == 2 * Quantile(y, 3)
        iqr == q3 - q1
        upper_fence == q3 + (3 * iqr) \div 2
        lower_fence == q1 - (3 * iqr) \div 2
    IN  [min |-> 8 * PyMin(y),
         lowerfence |-> Max2(lower_fence, 8 * PyMin(y)),
         q1 |-> q1,
         median |-> 2 * Quantile(y, 2),
         q3 |-> q3,
         upperfence |-> Min2(upper_fence, 8 * PyMax(y)),
         max |-> 8 * PyMax(y),
         notchspan |-> [num |-> 157 * iqr, root |-> Len(y)]]

(* The emptiness test made on the series as passed, before dropna(): an   *)
(* all-NaN series then reaches min() of an empty series, which raises.    *)
PrecomputeTestsRawLength(y0) ==
    IF Len(y0) = 0 THEN ZeroBox
    ELSE IF Len(DropNa(y0)) = 0 THEN [raised |-> "ValueError"]
    ELSE BoxOf(DropNa(y0))

_precompute_boxplot_values(y0) ==
    LET y == DropNa(y0)
    IN  IF Len(y) = 0 THEN ZeroBox ELSE BoxOf(y)

----------------------------------------------------------------------------
(* Specification of _precompute_boxplot_values over bounded sample vectors *)

(* Process-wide state, which outlives every call: the pandas display       *)
(* option float_format (None while not set), the state of numpy's global   *)
(* random generator, and the files written to the result directory.        *)
ProcessStart == [float_format |-> None, np_random |-> 0, files |-> {}]

(* the effects of an operation on the process: the float_format it sets    *)
(* (None when it sets none) and the files it writes                        *)
NoEffects == [float_format |-> None, files |-> {}]

(* _create_and_save_div: the file of the chart in the result directory *)
OutputFile(result_directory, main) == [dir |-> result_directory, name |-> main]

(* the process after an operation with the given effects *)
After(effects) ==
    [env EXCEPT !.float_format = IF effects.float_format = None THEN @ ELSE effects.float_format,
                !.files = @ \cup effects.files]

(* an exception left the call *)
Raised(r) == "raised" \in DOMAIN r

(* an argument that is given: a sequence, a string *)
Given(v) == [k |-> "given", v |-> v]

MaxBoxLen == 4

BoxValues == {Fin(-2), Fin(0), Fin(1), Fin(5), NaN}

(* the sample of the documented scenario, one outlier *)
OutlierSample == <<Fin(1), Fin(2), Fin(3), Fin(4), Fin(5), Fin(100)>>

BoxSamples == SeqsUpTo(BoxValues, MaxBoxLen) \cup {OutlierSample}

InitBox ==
    /\ pc = "start"
    /\ args \in {[y |-> s] : s \in BoxSamples}
    /\ ret = [none |-> TRUE]
    /\ env = ProcessStart

PrecomputeBoxplotValues ==
    /\ pc = "start"
    /\ "y" \in DOMAIN args
    /\ ret' = _precompute_boxplot_values(args.y)
    /\ pc' = "done"
    /\ UNCHANGED <<args, env>>

NextBox == PrecomputeBoxplotValues

SpecBox == InitBox /\ [][NextBox]_vars

(* What the claims say of a sample, stated without the code's helpers. *)

Sample == DropNa(args.y)

SetMin(S) == CHOOSE m \in S : \A e \in S : m <= e

SetMax(S) == CHOOSE m \in S : \A e \in S : m >= e

(* the k-th smallest value (k from 1) of s, by counting *)
OrderStat(s, k) ==
    CHOOSE v \in Range(s) :
        /\ Cardinality({i \in DOMAIN s : s[i] < v}) < k
        /\ Cardinality({i \in DOMAIN s : s[i] <= v}) >= k

(* the q4-th quartile in quarters: linear interpolation between the two   *)
(* order statistics around position (n - 1) q4 / 4                         *)
Quartile(s, q4) ==
    LET pos4 == (Len(s) - 1) * q4
        below == OrderStat(s, (pos4 \div 4) + 1)
        above == OrderStat(s, IF pos4 % 4 = 0 THEN (pos4 \div 4) + 1 ELSE (pos4 \div 4) + 2)
    IN  4 * below + (pos4 % 4) * (above - below)

Returned == pc = "done" /\ "lowerfence" \in DOMAIN ret

(* C1: the record of _precompute_boxplot_values(V) is ordered,             *)
(* lowerfence <= q1 <= median <= q3 <= upperfence, and when V has a        *)
(* non-NaN value both fences lie within [min(V), max(V)] of the non-NaN    *)
(* values.                                                                 *)
C1_FencesOrdered ==
    pc = "done" =>
        /\ Returned
        /\ ret.lowerfence <= ret.q1
        /\ ret.q1 <= ret.median
        /\ ret.median <= ret.q3
        /\ ret.q3 <= ret.upperfence
        /\ Sample # <<>> =>
              /\ 8 * SetMin(Range(Sample)) <= ret.lowerfence
              /\ ret.lowerfence <= 8 * SetMax(Range(Sample))
              /\ 8 * SetMin(Range(Sample)) <= ret.upperfence
              /\ ret.upperfence <= 8 * SetMax(Range(Sample))

(* a sample with distinct quartiles whose upper fence is inside the data   *)
C1_Witness ==
    /\ Returned
    /\ ret.lowerfence < ret.q1 /\ ret.q1 < ret.median /\ ret.median < ret.q3
    /\ ret.q3 < ret.upperfence /\ ret.upperfence < ret.max

(* C2: when V is empty after dropping NaNs (empty or all NaN) the call     *)
(* returns the record whose eight fields are 0, and does not raise.        *)
C2_EmptyIsAllZero ==
    (pc = "done" /\ Sample = <<>>) =>
        /\ Returned
        /\ ret.min = 0 /\ ret.lowerfence = 0 /\ ret.q1 = 0 /\ ret.median = 0
        /\ ret.q3 = 0 /\ ret.upperfence = 0 /\ ret.max = 0
        /\ ret.notchspan.num = 0

(* an all-NaN sample of two values or more has been summarised *)
C2_Witness ==
    /\ pc = "done" /\ Len(args.y) >= 2 /\ Sample = <<>>
    /\ "min" \in DOMAIN ret /\ ret.min = 0

(* C3: for non-empty V, with q1, q3 the 25th and 75th percentiles and      *)
(* iqr = q3 - q1, lowerfence = max(q1 - 1.5 iqr, min(V)), upperfence =     *)
(* min(q3 + 1.5 iqr, max(V)), and min, max are the extremes of V.          *)
C3_FencesClipped ==
    (pc = "done" /\ Sample # <<>>) =>
        LET q1 == 2 * Quartile(Sample, 1)
            q3 == 2 * Quartile(Sample, 3)
            lo == 8 * SetMin(Range(Sample))
            hi == 8 * SetMax(Range(Sample))
            rawlow == q1 - (3 * (q3 - q1)) \div 2
            rawup  == q3 + (3 * (q3 - q1)) \div 2
        IN  /\ Returned
            /\ ret.q1 = q1 /\ ret.q3 = q3
            /\ ret.min = lo /\ ret.max = hi
            /\ ret.lowerfence = (IF rawlow >= lo THEN rawlow ELSE lo)
            /\ ret.upperfence = (IF rawup <= hi THEN rawup ELSE hi)

(* a sample where the raw lower fence is below the minimum and is clipped, *)
(* while the raw upper fence is inside the data and is kept                *)
C3_Witness ==
    /\ Returned /\ Sample # <<>>
    /\ ret.q1 - (3 * (ret.q3 - ret.q1)) \div 2 < ret.min
    /\ ret.lowerfence = ret.min
    /\ ret.upperfence < ret.max

(* C4: for V = [1,2,3,4,5,100]: Q1 = 2.25, Q3 = 4.75, IQR = 2.5, raw upper *)
(* fence 8.5, raw lower fence -1.5, reported upperfence 8.5 and            *)
(* lowerfence 1 (all in eighths below).                                    *)
C4_OutlierScenario ==
    (pc = "done" /\ args.y = OutlierSample) =>
        /\ Returned
        /\ ret.q1 = 18 /\ ret.q3 = 38
        /\ ret.q3 - ret.q1 = 20
        /\ ret.q3 + (3 * (ret.q3 - ret.q1)) \div 2 = 68
        /\ ret.q1 - (3 * (ret.q3 - ret.q1)) \div 2 = -12
        /\ ret.upperfence = 68
        /\ ret.lowerfence = 8

C4_Witness == pc = "done" /\ args.y = OutlierSample /\ Returned /\ ret.max = 800

----------------------------------------------------------------------------
(* Library primitives used by _over_time_graph and _smooth_data *)

(* np.linspace(start, stop, num) without the end point: step (stop-start)/num *)
LinspaceNoEndpoint(start, stop, num) ==
    [i \in 1..num |-> start * (IF num > 1 THEN num - 1 ELSE 1)
                      + ((i - 1) * (stop - start) * (IF num > 1 THEN num - 1 ELSE 1)) \div num]

(* the denominator of the values of np.linspace(start, stop, num) *)
LinspaceDen(num) == IF num > 1 THEN num - 1 ELSE 1

(* np.linspace(start, stop, num): x[i] = start + i (stop - start)/(num - 1) *)
(* for i = 0..num-1, as integers over LinspaceDen(num)                     *)
Linspace(start, stop, num) ==
    [i \in 1..num |-> start * LinspaceDen(num) + (i - 1) * (stop - start)]

(* Assignment to the edge on the left: the last index i with bins[i] <= v. *)
DigitizeLeftEdge(v, bins) ==
    Cardinality({i \in DOMAIN bins : bins[i] <= v}) - (IF Len(bins) > 0 /\ bins[1] <= v THEN 1 ELSE 0)

RECURSIVE FirstAtLeast(_, _, _)
(* the 0-based index of the first entry of bins from position i that is   *)
(* >= v, and len(bins) when there is none                                  *)
FirstAtLeast(v, bins, i) ==
    IF i > Len(bins) THEN Len(bins)
    ELSE IF v <= bins[i] THEN i - 1
    ELSE FirstAtLeast(v, bins, i + 1)

(* np.digitize(v, bins, right=True) for non-decreasing bins: the index i   *)
(* with bins[i-1] < v <= bins[i], 0-based                                   *)
Digitize(v, bins) == FirstAtLeast(v, bins, 1)

(* scipy's Gaussian kernel: radius int(4.0 * sigma + 0.5) and the weights  *)
(* exp(-k^2 / (2 sigma^2)), k = 0..radius, in fixed point (1.0 = 10000);   *)
(* the filter divides by their two-sided sum.                              *)
KernelRadius(sigma) == (8 * sigma + 1) \div 2

KernelWeights(sigma) ==
    IF sigma = 1 THEN <<10000, 6065, 1353, 111, 3>>
    ELSE <<10000, 9802, 9231, 8353, 7261, 6065, 4868, 3753, 2780, 1979, 1353,
           889, 561, 340, 198, 111, 60, 31, 15, 7, 3>>

Weight(sigma, k) == KernelWeights(sigma)[(IF k < 0 THEN -k ELSE k) + 1]

KernelSum(sigma) ==
    SumSeq(KernelWeights(sigma)) + SumSeq(Tail(KernelWeights(sigma)))

(* mode='mirror' (d c b | a b c d | c b a), which does not repeat the edge *)
ReflectMirror(j, n) ==
    IF n = 1 THEN 0
    ELSE LET m == j % (2 * n - 2)
         IN  IF m < n THEN m ELSE 2 * n - 2 - m

(* mode='reflect' (d c b a | a b c d | d c b a): the 0-based index of the  *)
(* input that position j of the extended line reads, for a line of n       *)
Reflect(j, n) ==
    LET m == j % (2 * n)
    IN  IF m < n THEN m ELSE 2 * n - 1 - m

(* floating point sum of w * f over a window *)
FAdd(a, b) ==
    IF IsNaN(a) \/ IsNaN(b) THEN NaN
    ELSE IF IsFin(a) /\ IsFin(b) THEN Fin(a.v + b.v)
    ELSE IF IsFin(a) THEN b
    ELSE IF IsFin(b) THEN a
    ELSE IF a.v = b.v THEN a ELSE NaN

FScale(w, f) == IF IsFin(f) THEN Fin(w * f.v) ELSE f

RECURSIVE WindowSum(_, _, _, _, _)
(* sum over k = k0..k1 of weight(k) * v[reflect(i + k)]; i is 0-based; the *)
(* window is summed by halves                                               *)
WindowSum(v, sigma, i, k0, k1) ==
    IF k0 = k1 THEN FScale(Weight(sigma, k0), v[Reflect(i + k0, Len(v)) + 1])
    ELSE LET mid == (k0 + k1 + 2 * KernelRadius(sigma)) \div 2 - KernelRadius(sigma)
         IN  FAdd(WindowSum(v, sigma, i, k0, mid), WindowSum(v, sigma, i, mid + 1, k1))

RECURSIVE WindowSumSkipNaN(_, _, _, _, _)
WindowSumSkipNaN(v, sigma, i, k0, k1) ==
    IF k0 = k1
    THEN LET f == v[Reflect(i + k0, Len(v)) + 1]
         IN  IF IsNaN(f) THEN Fin(0) ELSE FScale(Weight(sigma, k0), f)
    ELSE LET mid == (k0 + k1 + 2 * KernelRadius(sigma)) \div 2 - KernelRadius(sigma)
         IN  FAdd(WindowSumSkipNaN(v, sigma, i, k0, mid),
                  WindowSumSkipNaN(v, sigma, i, mid + 1, k1))

(* A filter that leaves NaN inputs out of the window sum. *)
GaussianFilterSkipNaN(v, sigma) ==
    [i \in 1..Len(v) |->
        WindowSumSkipNaN(v, sigma, i - 1, -KernelRadius(sigma), KernelRadius(sigma))]

(* gaussian_filter1d(v, sigma): the correlation of v, extended by          *)
(* reflection, with the normalised kernel; the values returned here are    *)
(* the outputs multiplied by KernelSum(sigma).                             *)
gaussian_filter1d(v, sigma) ==
    [i \in 1..Len(v) |->
        WindowSum(v, sigma, i - 1, -KernelRadius(sigma), KernelRadius(sigma))]

----------------------------------------------------------------------------
(* _over_time_graph: binning, per-bin percentiles, smoothing *)

(* seconds per hour: t = time_series / 3600 is held as time_series over 3600 *)
SecondsPerHour == 3600

RECURSIVE BinDictFrom(_, _, _, _)
(* the loop `for bin_idx, val in zip(t, data_series)`: the mapping from an  *)
(* edge value to the list of the values assigned to it, in input order      *)
BinDictFrom(d, t, data, x) ==
    IF t = <<>> \/ data = <<>> THEN d
    ELSE LET b == x[Head(t) + 1]
         IN  BinDictFrom(IF b \in DOMAIN d
                            THEN [d EXCEPT ![b] = Append(@, Head(data))]
                            ELSE d @@ (b :> <<Head(data)>>),
                         Tail(t), Tail(data), x)

(* a dictionary that keeps, for every edge, the value assigned last only *)
BinDictLastOnly(t, data, x) ==
    LET d == BinDictFrom(<<>>, t, data, x)
    IN  [b \in DOMAIN d |-> <<d[b][Len(d[b])]>>]

BinDict(t, data, x) == BinDictFrom(<<>>, t, data, x)

(* An empty bin is given 0 in the five sequences. *)
RawPercentilesZeroFill(x, bin_dict) ==
    [k \in 1..5 |->
        [i \in 1..Len(x) |->
            IF x[i] \in DOMAIN bin_dict THEN Fin(Quantile(bin_dict[x[i]], k - 1))
            ELSE Fin(0)]]

(* the loop `for b in x`: y[k][i] is the percentile (0, 25, 50, 75, 100)[k] *)
(* of bin_dict[x[i]], in quarters, or NaN when x[i] is not a key            *)
RawPercentiles(x, bin_dict) ==
    [k \in 1..5 |->
        [i \in 1..Len(x) |->
            IF x[i] \in DOMAIN bin_dict THEN Fin(Quantile(bin_dict[x[i]], k - 1))
            ELSE NaN]]

(* the binning with the median alone smoothed; the four other sequences   *)
(* are left as they are, brought to the unit of the smoothed one           *)
OverTimeGraphSmoothsMedianOnly(data_series, time_series, time_bins, sigma) ==
    IF Len(time_series) = 0 THEN [raised |-> "ValueError"]
    ELSE LET x == Linspace(PyMin(time_series), PyMax(time_series), time_bins)
             t == [j \in 1..Len(time_series) |->
                      Digitize(time_series[j] * LinspaceDen(time_bins), x)]
             bin_dict == BinDict(t, data_series, x)
             raw == RawPercentiles(x, bin_dict)
         IN  [x |-> x, t |-> t, bin_dict |-> bin_dict, raw |-> raw,
              y |-> [k \in 1..5 |->
                        IF k = 3 THEN gaussian_filter1d(raw[k], sigma)
                        ELSE [i \in 1..Len(x) |-> FScale(KernelSum(sigma), raw[k][i])]]]

(* The locals of _over_time_graph when the figure is built: x over         *)
(* SecondsPerHour * LinspaceDen(time_bins) hours, t the digitized indices, *)
(* raw the five sequences before smoothing (quarters), y after smoothing   *)
(* (quarters times KernelSum(sigma)).                                      *)
_over_time_graph(data_series, time_series, time_bins, sigma) ==
    IF Len(time_series) = 0 THEN [raised |-> "ValueError"]
    ELSE LET zipped == Min2(Len(time_series), Len(data_series))
             x == Linspace(PyMin(time_series), PyMax(time_series), time_bins)
             t == [j \in 1..Len(time_series) |->
                      Digitize(time_series[j] * LinspaceDen(time_bins), x)]
         IN  IF \E j \in 1..zipped : t[j] >= Len(x) THEN [raised |-> "IndexError"]
             ELSE LET bin_dict == BinDict(t, data_series, x)
                      raw == RawPercentiles(x, bin_dict)
                  IN  [x |-> x,
                       t |-> t,
                       bin_dict |-> bin_dict,
                       raw |-> raw,
                       y |-> [k \in 1..5 |-> gaussian_filter1d(raw[k], sigma)]]

(* the comparison a > b of two floats: false when either is NaN *)
FGreater(a, b) ==
    /\ ~IsNaN(a) /\ ~IsNaN(b)
    /\ IF IsFin(a) /\ IsFin(b) THEN a.v > b.v
       ELSE IF IsFin(b) THEN a.v > 0
       ELSE IF IsFin(a) THEN b.v < 0
       ELSE a.v > b.v

(* builtin max() over a non-empty sequence of floats: the scan keeps its   *)
(* item unless the next one compares greater, so a NaN in first place      *)
(* stays and a NaN further on is passed over                               *)
RECURSIVE PyMaxFloatFrom(_, _)
PyMaxFloatFrom(best, s) ==
    IF s = <<>> THEN best
    ELSE PyMaxFloatFrom(IF FGreater(Head(s), best) THEN Head(s) ELSE best, Tail(s))

PyMaxFloat(s) == PyMaxFloatFrom(Head(s), Tail(s))

(* `if green_zone_starts_at:`, which a target of 0 does not pass *)
GreenZoneTruthy(green_zone_starts_at) ==
    green_zone_starts_at # None /\ green_zone_starts_at.v # 0

(* `if green_zone_starts_at is not None` *)
GreenZoneRequired(green_zone_starts_at) == green_zone_starts_at # None

Trace(name, x, y, fill) == [name |-> name, x |-> x, y |-> y, fill |-> fill]

(* the two traces of the green zone: x in seconds (over SecondsPerHour),   *)
(* the ceiling max(y[k]) * 1.05 in hundredths of the unit of y, the target *)
(* as it is given                                                          *)
GreenZone(time_series, y, min_max, green_zone_starts_at) ==
    LET min_x == PyMin(time_series)
        max_x == PyMax(time_series)
        top == PyMaxFloat(IF min_max THEN y[5] ELSE y[4])
        max_y == IF IsFin(top) THEN Fin(top.v * 105) ELSE top
    IN  <<Trace("", <<min_x, max_x>>, <<max_y, max_y>>, "none"),
          Trace("Median target", <<min_x, max_x>>,
                <<green_zone_starts_at, green_zone_starts_at>>, "tonexty")>>

(* the traces of the curves, in the order they are added *)
Curves(x, y, quartiles, min_max) ==
    IF quartiles
    THEN <<Trace("25% quartile", x, y[2], "none"),
           Trace("75% quartile", x, y[4], "tonexty"),
           Trace("Median", x, y[3], "none")>>
         \o (IF min_max THEN <<Trace("Min", x, y[1], "none"), Trace("Max", x, y[5], "none")>>
             ELSE <<>>)
    ELSE <<Trace("Median", x, y[3], "tozeroy")>>

(* The figure that _over_time_graph builds of the locals r of its binning  *)
(* (an exception of the binning leaves the call): the traces, the range    *)
(* mode and the type of the y axis, the file the figure is saved to, and   *)
(* the effects of the call.                                                *)
OverTimeFigure(r, time_series, result_directory, graph_name, log, quartiles, min_max, yaxis_starts_zero, green_zone_starts_at) ==
    IF Raised(r) THEN r @@ [effects |-> NoEffects]
    ELSE r @@ [fig |-> (IF GreenZoneRequired(green_zone_starts_at)
                        THEN GreenZone(time_series, r.y, min_max, green_zone_starts_at)
                        ELSE <<>>)
                       \o Curves(r.x, r.y, quartiles, min_max),
               range_mode |-> IF yaxis_starts_zero THEN "tozero" ELSE "normal",
               yaxis_type |-> IF log THEN "log" ELSE "linear",
               output_file |-> OutputFile(result_directory, graph_name),
               effects |-> [float_format |-> None,
                            files |-> {OutputFile(result_directory, graph_name)}]]

----------------------------------------------------------------------------
(* Specification of _over_time_graph over bounded observation series *)

MaxObs == 3

MaxBins == 4

GridBins == 10

TimeValues == {0, 3600, 7200}

DataValues == {10, 20, 40}

(* the sigma every caller leaves at its default *)
DefaultSigma == 1

Column(obs, c) == [j \in 1..Len(obs) |-> obs[j][c]]

(* every caller leaves log, time_bins, sigma, quartiles, min_max,          *)
(* yaxis_starts_zero and green_zone_starts_at at their defaults; the       *)
(* number of bins is scaled down from the default 1000                     *)
OverTimeArgs(T, V, B) ==
    [time_series |-> T, data_series |-> V, time_bins |-> B, sigma |-> DefaultSigma,
     result_directory |-> "result", graph_name |-> "over time", log |-> FALSE,
     quartiles |-> TRUE, min_max |-> FALSE, yaxis_starts_zero |-> FALSE,
     green_zone_starts_at |-> None]

(* the documented scenario: 3 bins, readings at 0, 1, 2 and 3 hours *)
ScenarioArgs ==
    OverTimeArgs(<<0, 3600, 7200, 10800>>, <<10, 20, 30, 40>>, 3)

RECURSIVE AscendingSeq(_)
AscendingSeq(S) ==
    IF S = {} THEN <<>>
    ELSE LET m == CHOOSE e \in S : \A o \in S : e <= o
         IN  <<m>> \o AscendingSeq(S \ {m})

(* one reading on each edge of a chosen set of edges of a grid of GridBins *)
(* edges one hour apart, the first and the last edge always among them     *)
GridArgs ==
    {OverTimeArgs([j \in 1..Len(AscendingSeq(S)) |-> AscendingSeq(S)[j] * SecondsPerHour],
                  [j \in 1..Len(AscendingSeq(S)) |-> 10],
                  GridBins) :
        S \in {Q \cup {0, GridBins - 1} : Q \in SUBSET (1..(GridBins - 2))}}

GenericArgs ==
    {OverTimeArgs(Column(obs, 1), Column(obs, 2), B) :
        obs \in SeqsUpTo(TimeValues \X DataValues, MaxObs), B \in 2..MaxBins}

InitOverTime ==
    /\ pc = "start"
    /\ args \in GenericArgs \cup GridArgs \cup {ScenarioArgs}
    /\ ret = [none |-> TRUE]
    /\ env = ProcessStart

OverTimeGraph ==
    /\ pc = "start"
    /\ "time_series" \in DOMAIN args
    /\ \E binned \in {_over_time_graph(args.data_series, args.time_series,
                                        args.time_bins, args.sigma)} :
         \E r \in {OverTimeFigure(binned, args.time_series, args.result_directory,
                                  args.graph_name, args.log, args.quartiles, args.min_max,
                                  args.yaxis_starts_zero, args.green_zone_starts_at)} :
            /\ ret' = [k \in DOMAIN r \ {"effects"} |-> r[k]]
            /\ env' = After(r.effects)
    /\ pc' = "done"
    /\ UNCHANGED args

NextOverTime == OverTimeGraph

SpecOverTime == InitOverTime /\ [][NextOverTime]_vars

(* What the claims say of a call of _over_time_graph *)

OTReturned == pc = "done" /\ "x" \in DOMAIN ret

NumBins == args.time_bins

NumObs == Len(args.time_series)

(* ret.x[i] / XDen is edge i in hours *)
XDen == SecondsPerHour * LinspaceDen(NumBins)

(* the time of observation j over XDen hours *)
TimeOf(j) == args.time_series[j] * LinspaceDen(NumBins)

MinTime == SetMin(Range(args.time_series))

MaxTime == SetMax(Range(args.time_series))

StrictlyIncreasing(x) == \A i \in 1..(Len(x) - 1) : x[i] < x[i + 1]

FiveOfLength(n) ==
    /\ DOMAIN ret.raw = 1..5 /\ DOMAIN ret.y = 1..5
    /\ \A k \in 1..5 : Len(ret.raw[k]) = n /\ Len(ret.y[k]) = n

SpansTimes ==
    /\ Len(ret.x) = NumBins
    /\ ret.x[1] * SecondsPerHour = MinTime * XDen
    /\ ret.x[NumBins] * SecondsPerHour = MaxTime * XDen

(* C5 as stated: for all V and T of equal length N >= 1, all-equal T       *)
(* included, five sequences of length time_bins and an x-axis of time_bins  *)
(* edges, strictly increasing, from min(T)/3600 to max(T)/3600.            *)
C5_AsStated ==
    (pc = "done" /\ NumObs >= 1) =>
        /\ OTReturned
        /\ FiveOfLength(NumBins)
        /\ SpansTimes
        /\ StrictlyIncreasing(ret.x)

(* C5, amended: five sequences of length time_bins and an x-axis of        *)
(* time_bins edges from min(T)/3600 to max(T)/3600, which is strictly      *)
(* increasing when T holds two distinct times and constant when all times  *)
(* of T are equal.                                                          *)
C5_EdgesAndLengths ==
    (pc = "done" /\ NumObs >= 1) =>
        /\ OTReturned
        /\ FiveOfLength(NumBins)
        /\ SpansTimes
        /\ MinTime < MaxTime => StrictlyIncreasing(ret.x)
        /\ MinTime = MaxTime => \A i \in 1..NumBins : ret.x[i] = ret.x[1]

(* three edges or more over two distinct times *)
C5_Witness ==
    /\ OTReturned /\ NumBins >= 3 /\ NumObs >= 2 /\ MinTime < MaxTime
    /\ ret.x[1] < ret.x[2] /\ Len(ret.y[5]) = NumBins

(* C6: every observation is assigned to the smallest edge >= its time in   *)
(* hours; a time equal to an edge is assigned to that edge; the index is   *)
(* within 0..time_bins-1; the minimum time has index 0 and the maximum     *)
(* time is assigned to the last edge.                                      *)
C6_RightEdgeAssignment ==
    pc = "done" /\ NumObs >= 1 =>
        /\ OTReturned
        /\ Len(ret.t) = NumObs
        /\ \A j \in 1..NumObs :
              /\ ret.t[j] \in 0..(NumBins - 1)
              /\ ret.x[ret.t[j] + 1] >= TimeOf(j)
              /\ \A i \in 1..NumBins :
                    ret.x[i] >= TimeOf(j) => ret.x[ret.t[j] + 1] <= ret.x[i]
              /\ \A i \in 1..NumBins :
                    ret.x[i] = TimeOf(j) => ret.x[ret.t[j] + 1] = TimeOf(j)
              /\ args.time_series[j] = MinTime => ret.t[j] = 0
              /\ args.time_series[j] = MaxTime => ret.x[ret.t[j] + 1] = ret.x[NumBins]
              /\ (args.time_series[j] = MaxTime /\ MinTime < MaxTime)
                    => ret.t[j] = NumBins - 1

(* one observation exactly on an inner edge, between the observations at   *)
(* the first and at the last edge                                          *)
C6_Witness ==
    /\ OTReturned
    /\ \E j \in 1..NumObs : ret.t[j] \in 1..(NumBins - 2) /\ ret.x[ret.t[j] + 1] = TimeOf(j)
    /\ \E j \in 1..NumObs : ret.t[j] = 0
    /\ \E j \in 1..NumObs : ret.t[j] = NumBins - 1

(* the values of the observations assigned to an edge equal to edge i, in  *)
(* input order                                                              *)
RECURSIVE AssignedFrom(_, _)
AssignedFrom(i, j) ==
    IF j > NumObs THEN <<>>
    ELSE (IF ret.x[ret.t[j] + 1] = ret.x[i] THEN <<args.data_series[j]>> ELSE <<>>)
         \o AssignedFrom(i, j + 1)

Assigned(i) == AssignedFrom(i, 1)

(* C7: before smoothing, position i of the five sequences holds the 0th,   *)
(* 25th, 50th, 75th and 100th percentile of exactly the observations       *)
(* assigned to edge i when there are some, and NaN in all five when there  *)
(* are none.                                                                *)
C7_RawPercentiles ==
    pc = "done" /\ NumObs >= 1 =>
        /\ OTReturned
        /\ \A i \in 1..NumBins : \A k \in 1..5 :
              IF Assigned(i) = <<>> THEN ret.raw[k][i] = NaN
              ELSE ret.raw[k][i] = Fin(Quartile(Assigned(i), k - 1))

(* a bin of two different values next to an empty bin *)
C7_Witness ==
    /\ OTReturned
    /\ \E i \in 1..NumBins : Assigned(i) = <<>> /\ ret.raw[3][i] = NaN
    /\ \E i \in 1..NumBins :
          /\ Len(Assigned(i)) >= 2
          /\ IsFin(ret.raw[1][i]) /\ IsFin(ret.raw[5][i])
          /\ ret.raw[1][i].v < ret.raw[2][i].v /\ ret.raw[2][i].v < ret.raw[5][i].v

ScenarioEdges ==
    /\ Len(ret.x) = 3
    /\ ret.x[1] = 0
    /\ 2 * ret.x[2] = 3 * XDen
    /\ ret.x[3] = 3 * XDen

(* C8 as stated: with 3 bins, T = [0, 3600, 7200, 10800] and V = [10, 20,  *)
(* 30, 40] the edges are [0, 1.5, 3] hours and bin 0 receives 10 and 20.   *)
C8_AsStated ==
    (pc = "done" /\ args = ScenarioArgs) =>
        /\ OTReturned
        /\ ScenarioEdges
        /\ Assigned(1) = <<10, 20>>

(* C8, amended: the edges are [0, 1.5, 3] hours; bin 0 receives only the   *)
(* value at t = 0 h (10), the value at t = 1 h (20) goes to the edge 1.5   *)
(* and the values at 2 h and 3 h (30, 40) to the edge 3.                   *)
C8_ScenarioBins ==
    (pc = "done" /\ args = ScenarioArgs) =>
        /\ OTReturned
        /\ ScenarioEdges
        /\ ret.t = <<0, 1, 2, 2>>
        /\ Assigned(1) = <<10>>
        /\ Assigned(2) = <<20>>
        /\ Assigned(3) = <<30, 40>>

C8_Witness ==
    /\ pc = "done" /\ args = ScenarioArgs /\ OTReturned
    /\ ret.raw[3] = <<Fin(40), Fin(80), Fin(140)>>

(* bin e is empty: no observation is assigned to an edge equal to edge e   *)
EmptyBin(e) == \A j \in 1..NumObs : ret.x[ret.t[j] + 1] # ret.x[e]

Distance(a, b) == IF a >= b THEN a - b ELSE b - a

(* Bin e (1-based) lies within the kernel radius of position i of a line   *)
(* of n bins extended by reflection: the extended line shows bin e at the  *)
(* 0-based positions e - 1 + 2nm and -e + 2nm, for every integer m.        *)
WithinRadius(e, i, n, radius) ==
    \E m \in (-radius)..radius :
        \/ Distance(i - 1, e - 1 + 2 * n * m) <= radius
        \/ Distance(i - 1, 2 * n * m - e) <= radius

(* C9: smoothing does not impute empty bins: smoothed position i is NaN    *)
(* if and only if an empty bin lies within the kernel radius of i, under   *)
(* reflect padding; positions farther from every empty bin are not NaN.    *)
C9_NaNWithinRadius ==
    pc = "done" /\ NumObs >= 1 =>
        /\ OTReturned
        /\ \A k \in 1..5 : \A i \in 1..NumBins :
              IsNaN(ret.y[k][i]) <=>
                  \E e \in 1..NumBins :
                      EmptyBin(e) /\ WithinRadius(e, i, NumBins, KernelRadius(args.sigma))

(* some bins are empty; one position is NaN although its own bin holds an  *)
(* observation, another is farther than the radius and is a number         *)
C9_Witness ==
    /\ OTReturned /\ NumBins > 2 * KernelRadius(args.sigma)
    /\ \E i \in 1..NumBins : ~EmptyBin(i) /\ IsNaN(ret.y[3][i])
    /\ \E i \in 1..NumBins : IsFin(ret.y[3][i])
    /\ \E i \in 2..(NumBins - 1) : IsFin(ret.y[3][i]) /\ IsNaN(ret.y[3][i + 1])

(* the places of the bin lists: an edge value and a position in its list *)
Slots == UNION {{<<b, i>> : i \in DOMAIN ret.bin_dict[b]} : b \in DOMAIN ret.bin_dict}

(* the edge of observation j: the smallest edge that is not before its     *)
(* time                                                                    *)
EdgeOf(j) == SetMin({ret.x[i] : i \in {e \in 1..NumBins : ret.x[e] >= TimeOf(j)}})

(* C29: the binning conserves the observations: the bin lists are kept     *)
(* under edge values, they hold N values together, and the list of an edge *)
(* holds every value as many times as there are observations of that value *)
(* whose time belongs to the edge, so that every (time, value) pair is in  *)
(* exactly one list, once.                                                 *)
C29_BinningConserves ==
    pc = "done" /\ NumObs >= 1 =>
        /\ OTReturned
        /\ DOMAIN ret.bin_dict \subseteq Range(ret.x)
        /\ Cardinality(Slots) = NumObs
        /\ \A b \in Range(ret.x) : \A v \in Range(args.data_series) :
              Cardinality({p \in Slots : p[1] = b /\ ret.bin_dict[b][p[2]] = v})
                  = Cardinality({j \in 1..NumObs : EdgeOf(j) = b /\ args.data_series[j] = v})

(* two observations of one time and one value in one list, a third         *)
(* observation in another                                                  *)
C29_Witness ==
    /\ OTReturned /\ NumObs = 3
    /\ Cardinality(DOMAIN ret.bin_dict) = 2
    /\ \E b \in DOMAIN ret.bin_dict :
          Len(ret.bin_dict[b]) = 2 /\ ret.bin_dict[b][1] = ret.bin_dict[b][2]
    /\ args.time_series[1] = args.time_series[2]

(* at every position where both are numbers, each of the five sequences is *)
(* at most the next one                                                    *)
BandOrdered(curves) ==
    \A i \in 1..NumBins : \A k \in 1..4 :
        (IsFin(curves[k][i]) /\ IsFin(curves[k + 1][i])) => curves[k][i].v <= curves[k + 1][i].v

(* C30: the percentile band never crosses: min <= Q1 <= median <= Q3 <=    *)
(* max at every position where the values are not NaN, before the          *)
(* smoothing and after it; after the smoothing the five sequences are NaN  *)
(* at the same positions.                                                  *)
C30_BandNeverCrosses ==
    pc = "done" /\ NumObs >= 1 =>
        /\ OTReturned
        /\ BandOrdered(ret.raw)
        /\ BandOrdered(ret.y)
        /\ \A i \in 1..NumBins : \A k \in 1..5 : IsNaN(ret.y[k][i]) <=> IsNaN(ret.y[1][i])

(* a bin of two different values next to a bin of a greater value: the     *)
(* five smoothed values of the first bin are numbers, strictly ordered,    *)
(* and the smoothed median is above the third quartile before smoothing    *)
C30_Witness ==
    /\ OTReturned
    /\ \E i \in 1..NumBins :
          /\ \A k \in 1..5 : IsFin(ret.raw[k][i]) /\ IsFin(ret.y[k][i])
          /\ \A k \in 1..4 : ret.raw[k][i].v < ret.raw[k + 1][i].v
          /\ \A k \in 1..4 : ret.y[k][i].v < ret.y[k + 1][i].v
          /\ ret.y[3][i].v > KernelSum(args.sigma) * ret.raw[4][i].v

----------------------------------------------------------------------------
(* _smooth_data: histogram density scaled to counts, then smoothed *)

(* np.histogram(a, bins) for an array of edges: cumulative counts by       *)
(* searchsorted (left for every edge but the last, right for the last),    *)
(* then their differences; the last bin includes its right edge.           *)
CumCount(a, bins, i) ==
    IF i < Len(bins) THEN Cardinality({j \in DOMAIN a : a[j] < bins[i]})
    ELSE Cardinality({j \in DOMAIN a : a[j] <= bins[i]})

Histogram(a, bins) ==
    [i \in 1..(Len(bins) - 1) |-> CumCount(a, bins, i + 1) - CumCount(a, bins, i)]

(* density=True, then `* len(data)`: n / db / n.sum() * len(data) with db  *)
(* the bin width.  A finite value is the numerator over db * n.sum(); 0/0  *)
(* is NaN and n/0 with n > 0 is inf.                                       *)
CountScaled(n, db, total, length) ==
    [i \in 1..Len(n) |->
        IF total = 0 THEN NaN
        ELSE IF db = 0 THEN (IF n[i] = 0 THEN NaN ELSE Inf(1))
        ELSE Fin(n[i] * length)]

(* the range always taken from the data, whatever min_arg and max_arg say  *)
SmoothIgnoresRange(npoints, sigma, data, min_arg, max_arg) ==
    IF Len(data) = 0 THEN [raised |-> "ValueError"]
    ELSE LET lo == PyMin(data)
             hi == PyMax(data)
             bins == Linspace(lo, hi, npoints)
             n == Histogram([j \in 1..Len(data) |-> data[j] * LinspaceDen(npoints)], bins)
             scaled == CountScaled(n, hi - lo, SumSeq(n), Len(data))
         IN  [count_x |-> Tail(bins),
              count_y |-> gaussian_filter1d(scaled, sigma),
              hist |-> n,
              scaled |-> scaled]

(* The locals of _smooth_data at its return: count_x over                  *)
(* LinspaceDen(npoints); hist the bin counts; scaled the count-scale       *)
(* density before smoothing, over (max - min) n.sum() / LinspaceDen;       *)
(* count_y the smoothed values, times KernelSum(sigma).  np.nanmin of an   *)
(* empty vector raises, and so does np.histogram on decreasing edges.      *)
_smooth_data(npoints, sigma, data, min_arg, max_arg) ==
    IF (min_arg = None \/ max_arg = None) /\ Len(data) = 0 THEN [raised |-> "ValueError"]
    ELSE LET lo == IF min_arg = None THEN PyMin(data) ELSE min_arg.v
             hi == IF max_arg = None THEN PyMax(data) ELSE max_arg.v
             bins == Linspace(lo, hi, npoints)
         IN  IF lo > hi THEN [raised |-> "ValueError"]
             ELSE LET n == Histogram([j \in 1..Len(data) |-> data[j] * LinspaceDen(npoints)], bins)
                      scaled == CountScaled(n, hi - lo, SumSeq(n), Len(data))
                  IN  [count_x |-> Tail(bins),
                       count_y |-> gaussian_filter1d(scaled, sigma),
                       hist |-> n,
                       scaled |-> scaled]

----------------------------------------------------------------------------
(* Specification of _smooth_data over bounded data vectors *)

MaxData == 3

MaxPoints == 4

SmoothValues == {0, 1, 2, 6}

RangeArgs == {None, Fin(0), Fin(3)}

(* the sigma the callers pass, and the library's unit sigma *)
SmoothSigmas == {1, 5}

(* calls with more bins than the kernel of sigma = 1 has radius, over the  *)
(* default range                                                           *)
LongPoints == 8

LongValues == {0, 1, 3, 7}

LongArgs ==
    [npoints : {LongPoints}, sigma : SmoothSigmas,
     data : SeqsUpTo(LongValues, MaxData),
     min_arg : {None}, max_arg : {None}]

InitSmooth ==
    /\ pc = "start"
    /\ args \in [npoints : 2..MaxPoints, sigma : SmoothSigmas,
                  data : SeqsUpTo(SmoothValues, MaxData),
                  min_arg : RangeArgs, max_arg : RangeArgs] \cup LongArgs
    /\ ret = [none |-> TRUE]
    /\ env = ProcessStart

SmoothData ==
    /\ pc = "start"
    /\ "npoints" \in DOMAIN args
    /\ ret' = _smooth_data(args.npoints, args.sigma, args.data, args.min_arg, args.max_arg)
    /\ pc' = "done"
    /\ UNCHANGED <<args, env>>

NextSmooth == SmoothData

SpecSmooth == InitSmooth /\ [][NextSmooth]_vars

(* What the claims say of a call of _smooth_data *)

SmoothReturned == pc = "done" /\ "count_x" \in DOMAIN ret

(* the range of the histogram: the argument, or the extreme of the data *)
RangeMin == IF args.min_arg = None THEN SetMin(Range(args.data)) ELSE args.min_arg.v

RangeMax == IF args.max_arg = None THEN SetMax(Range(args.data)) ELSE args.max_arg.v

(* the shape of the two sequences: both of length P - 1, x[i] the edge     *)
(* min + i (max - min)/(P - 1), i = 1..P-1, the right edge of bin i        *)
SmoothShape ==
    /\ Len(ret.count_x) = args.npoints - 1
    /\ Len(ret.count_y) = args.npoints - 1
    /\ \A i \in 1..(args.npoints - 1) :
          ret.count_x[i] = RangeMin * (args.npoints - 1) + i * (RangeMax - RangeMin)
    /\ ret.count_x[args.npoints - 1] = RangeMax * (args.npoints - 1)
    /\ RangeMin < RangeMax =>
          \A i \in 1..(args.npoints - 1) :
              ret.hist[i] = Cardinality({j \in DOMAIN args.data :
                  /\ args.data[j] * (args.npoints - 1) >= ret.count_x[i] - (RangeMax - RangeMin)
                  /\ \/ args.data[j] * (args.npoints - 1) < ret.count_x[i]
                     \/ i = args.npoints - 1 /\ args.data[j] = RangeMax})

(* C10: for every data vector and every npoints = P >= 2, _smooth_data     *)
(* returns two sequences of the same length P - 1, the x sequence being    *)
(* the P equally spaced edges over [min, max] without the first, so that   *)
(* x[i] is the right edge of bin i and the last x is max.                  *)
C10_AsStated ==
    (pc = "done" /\ args.min_arg = None /\ args.max_arg = None) =>
        SmoothReturned /\ SmoothShape

(* The statement of C10 holds of every call that is given a value: a       *)
(* non-empty data vector, or an explicit range.                            *)
C10_ShapeWhenNonEmpty ==
    (pc = "done" /\ (Len(args.data) > 0 \/ (args.min_arg # None /\ args.max_arg # None))
                 /\ RangeMin <= RangeMax) =>
        SmoothReturned /\ SmoothShape

C10_Witness ==
    /\ SmoothReturned /\ args.npoints >= 3 /\ Len(args.data) >= 2
    /\ RangeMin < RangeMax /\ ret.hist[1] >= 1 /\ ret.hist[args.npoints - 1] >= 1

(* the samples of the data vector that fall in bin i, whose right edge is  *)
(* x[i]: left edge included, right edge excluded but for the last bin      *)
BinCount(i) ==
    Cardinality({j \in DOMAIN args.data :
        /\ args.data[j] * (args.npoints - 1) >= ret.count_x[i] - (RangeMax - RangeMin)
        /\ \/ args.data[j] * (args.npoints - 1) < ret.count_x[i]
           \/ i = args.npoints - 1 /\ args.data[j] = RangeMax})

(* the samples inside the range of the histogram *)
InRange ==
    Cardinality({j \in DOMAIN args.data :
        args.data[j] >= RangeMin /\ args.data[j] <= RangeMax})

AllInRange == InRange = Len(args.data)

(* the un-smoothed value y[i] times the bin width is ret.scaled[i].v over  *)
(* the number of samples inside the range                                  *)
OnCountScale ==
    \A i \in 1..(args.npoints - 1) :
        /\ IsFin(ret.scaled[i])
        /\ ret.scaled[i].v = BinCount(i) * InRange

IntegratesToLength ==
    /\ \A i \in 1..(args.npoints - 1) : IsFin(ret.scaled[i])
    /\ SumSeq([i \in 1..(args.npoints - 1) |-> ret.scaled[i].v]) = Len(args.data) * InRange

(* C11 as stated: for every data vector and every range, default or        *)
(* passed, the un-smoothed y is on the count scale: y[i] times the bin     *)
(* width is the number of samples in bin i.  Stated here of the ranges     *)
(* that are not degenerate and hold a sample, where y is finite.           *)
C11_AsStated ==
    (SmoothReturned /\ RangeMin < RangeMax /\ InRange >= 1) => OnCountScale

(* What the code does give: when the range is not degenerate and at least  *)
(* one sample lies inside it, the un-smoothed y[i] times the bin width is  *)
(* the number of samples in bin i times len(V) over the number of samples  *)
(* inside the range, and y integrates to len(V); so y is on the count      *)
(* scale when every sample of V lies inside the range, as with the default *)
(* range.                                                                  *)
C11_CountScaleInRange ==
    (SmoothReturned /\ RangeMin < RangeMax /\ InRange >= 1) =>
        /\ \A i \in 1..(args.npoints - 1) :
              /\ IsFin(ret.scaled[i])
              /\ ret.scaled[i].v = BinCount(i) * Len(args.data)
        /\ IntegratesToLength
        /\ AllInRange => OnCountScale

C11_Witness ==
    /\ SmoothReturned /\ RangeMin < RangeMax /\ AllInRange
    /\ args.min_arg # None /\ args.max_arg # None
    /\ args.npoints >= 3 /\ BinCount(1) = 2 /\ BinCount(args.npoints - 1) = 1

(* the sum of a sequence of finite values *)
FinSum(f) == SumSeq([i \in 1..Len(f) |-> f[i].v])

AllFinite(f) == \A i \in 1..Len(f) : IsFin(f[i])

(* C12: the Gaussian smoothing of _smooth_data preserves the total mass:   *)
(* the sum of the smoothed y sequence equals the sum of the un-smoothed    *)
(* sequence (of finite values), the kernel being normalised and symmetric  *)
(* and the padding a reflection.  The smoothed values are held times       *)
(* KernelSum(sigma).                                                       *)
C12_MassPreserved ==
    (SmoothReturned /\ AllFinite(ret.scaled)) =>
        /\ AllFinite(ret.count_y)
        /\ FinSum(ret.count_y) = KernelSum(args.sigma) * FinSum(ret.scaled)

(* a histogram longer than the kernel radius, with an empty bin between    *)
(* two bins of different counts, which the smoothing changes               *)
C12_Witness ==
    /\ SmoothReturned /\ AllFinite(ret.scaled)
    /\ args.npoints = LongPoints /\ args.sigma = 1
    /\ ret.hist[1] = 2 /\ ret.hist[2] = 0 /\ ret.hist[LongPoints - 1] = 1
    /\ ret.count_y[2].v > 0
    /\ ret.count_y[1].v # KernelSum(args.sigma) * ret.scaled[1].v

----------------------------------------------------------------------------
(* Curves drawn over one another: _read_length_distribution and            *)
(* _phred_score_density call _smooth_data once per curve.  The layout of   *)
(* the figure is not modelled.                                             *)

(* the sigma every caller of _smooth_data passes *)
CallerSigma == 5

(* three curves, each over the default range of its own data *)
_read_length_distribution(all_read, read_pass, read_fail, npoints) ==
    LET r1 == _smooth_data(npoints, CallerSigma, all_read, None, None)
        r2 == _smooth_data(npoints, CallerSigma, read_pass, None, None)
        r3 == _smooth_data(npoints, CallerSigma, read_fail, None, None)
    IN  IF Raised(r1) THEN r1
        ELSE IF Raised(r2) THEN r2
        ELSE IF Raised(r3) THEN r3
        ELSE [count_x1 |-> r1.count_x, count_y1 |-> r1.count_y,
              count_x2 |-> r2.count_x, count_y2 |-> r2.count_y,
              count_x3 |-> r3.count_x, count_y3 |-> r3.count_y]

(* the pass and the fail curve over the range of the all-reads column;     *)
(* count_y2 and count_y3 are divided by len(all_series), held in all_len.  *)
(* np.nanmin of an empty all_series raises.                                *)
_phred_score_density(dataframe, npoints) ==
    LET all_series == DropNa(dataframe.all)
        pass_series == DropNa(dataframe.pass)
        fail_series == DropNa(dataframe.fail)
    IN  IF Len(all_series) = 0 THEN [raised |-> "ValueError"]
        ELSE LET lo == Fin(PyMin(all_series))
                 hi == Fin(PyMax(all_series))
                 r2 == _smooth_data(npoints, CallerSigma, pass_series, lo, hi)
                 r3 == _smooth_data(npoints, CallerSigma, fail_series, lo, hi)
             IN  IF Raised(r2) THEN r2
                 ELSE IF Raised(r3) THEN r3
                 ELSE [count_x2 |-> r2.count_x, count_y2 |-> r2.count_y,
                       count_x3 |-> r3.count_x, count_y3 |-> r3.count_y,
                       all_len |-> Len(all_series)]

(* the frame that phred_score_density builds of the reads: the value of    *)
(* every read, and the same value in the pass or in the fail column        *)
PhredFrame(rows) ==
    [all  |-> [i \in 1..Len(rows) |-> Fin(rows[i].q)],
     pass |-> [i \in 1..Len(rows) |-> IF rows[i].passes THEN Fin(rows[i].q) ELSE NaN],
     fail |-> [i \in 1..Len(rows) |-> IF rows[i].passes THEN NaN ELSE Fin(rows[i].q)]]

(* the values of the reads that pass (or fail), as read_length_scatterplot *)
(* selects them                                                            *)
RECURSIVE ReadsWhere(_, _)
ReadsWhere(rows, passes) ==
    IF rows = <<>> THEN <<>>
    ELSE IF Head(rows).passes = passes THEN <<Head(rows).q>> \o ReadsWhere(Tail(rows), passes)
    ELSE ReadsWhere(Tail(rows), passes)

MaxReads == 3

MaxPair == 2

ReadRows == [q : {1, 2, 7}, passes : BOOLEAN]

PairValues == {0, 2, 6}

ReadsArgs ==
    [op : {"_read_length_distribution", "_phred_score_density"},
     npoints : 2..MaxPoints, rows : SeqsUpTo(ReadRows, MaxReads)]

PairArgs ==
    [op : {"_smooth_data"}, npoints : 2..MaxPoints,
     data : SeqsUpTo(PairValues, MaxPair), other : SeqsUpTo(PairValues, MaxPair),
     min_arg : RangeArgs, max_arg : RangeArgs]

InitOverlay ==
    /\ pc = "start"
    /\ args \in ReadsArgs \cup PairArgs
    /\ ret = [none |-> TRUE]
    /\ env = ProcessStart

(* two invocations with the same npoints, min_arg and max_arg *)
SmoothTwice ==
    /\ pc = "start"
    /\ args.op = "_smooth_data"
    /\ ret' = [first  |-> _smooth_data(args.npoints, CallerSigma, args.data, args.min_arg, args.max_arg),
               second |-> _smooth_data(args.npoints, CallerSigma, args.other, args.min_arg, args.max_arg)]
    /\ pc' = "done"
    /\ UNCHANGED <<args, env>>

ReadLengthDistribution ==
    /\ pc = "start"
    /\ args.op = "_read_length_distribution"
    /\ ret' = _read_length_distribution([i \in 1..Len(args.rows) |-> args.rows[i].q],
                                        ReadsWhere(args.rows, TRUE),
                                        ReadsWhere(args.rows, FALSE), args.npoints)
    /\ pc' = "done"
    /\ UNCHANGED <<args, env>>

PhredScoreDensity ==
    /\ pc = "start"
    /\ args.op = "_phred_score_density"
    /\ ret' = _phred_score_density(PhredFrame(args.rows), args.npoints)
    /\ pc' = "done"
    /\ UNCHANGED <<args, env>>

NextOverlay == SmoothTwice \/ ReadLengthDistribution \/ PhredScoreDensity

SpecOverlay == InitOverlay /\ [][NextOverlay]_vars

(* What the claims say of curves drawn over one another *)

PhredReturned == pc = "done" /\ args.op = "_phred_score_density" /\ ~Raised(ret)

ReadValues(passes) == {args.rows[i].q : i \in {j \in DOMAIN args.rows : args.rows[j].passes = passes}}

AllReadValues == {args.rows[i].q : i \in DOMAIN args.rows}

----------------------------------------------------------------------------
(* _interpolate: resampling of one vector, interpolation of a pair *)

(* The pseudo-random generator behind sklearn.utils.resample: a state, and *)
(* a step that yields the next state.  A linear congruential generator     *)
(* stands for numpy's Mersenne twister: what the model keeps of it is that *)
(* the draws are a function of the state the generator starts from.        *)
RngNext(state) == (state * 75 + 74) % 65537

(* RandomState(seed) *)
Seeded(seed) == seed % 65537

(* random_state.randint(0, high, size): the indices drawn *)
RECURSIVE Randint(_, _, _)
Randint(state, high, size) ==
    IF size = 0 THEN <<>>
    ELSE <<RngNext(state) % high>> \o Randint(RngNext(state), high, size - 1)

(* the state of the generator after size draws *)
RECURSIVE RngAfter(_, _)
RngAfter(state, size) == IF size = 0 THEN state ELSE RngAfter(RngNext(state), size - 1)

(* resample(x, n_samples=..., random_state=...), with replacement: an int  *)
(* random_state seeds a generator of its own, None draws from numpy's      *)
(* global generator np_random and advances it.  randint raises on an empty *)
(* x.  The result holds the global generator as the call leaves it.        *)
resample(x, n_samples, random_state, np_random) ==
    LET state == IF random_state = None THEN np_random ELSE Seeded(random_state.v)
    IN  IF Len(x) = 0 THEN [raised |-> "ValueError", np_random |-> np_random]
        ELSE [value |-> [i \in 1..n_samples |-> x[Randint(state, Len(x), n_samples)[i] + 1]],
              np_random |-> IF random_state = None THEN RngAfter(state, n_samples)
                            ELSE np_random]

(* np.sort of floats: the numbers ascending, then the NaN *)
NpSort(f) ==
    LET numbers == SortAsc(DropNa(f))
    IN  [i \in 1..Len(f) |-> IF i <= Len(numbers) THEN Fin(numbers[i]) ELSE NaN]

(* np.argsort(x, kind="mergesort"): the indices of x in ascending order of *)
(* value, equal values in their order                                      *)
Argsort(x) ==
    [p \in 1..Len(x) |->
        CHOOSE i \in DOMAIN x :
            Cardinality({j \in DOMAIN x : x[j] < x[i] \/ (x[j] = x[i] /\ j < i)}) = p - 1]

(* interp1d(x, y, kind="nearest") at x_new = xq / den: x and y sorted by   *)
(* x, the index found by searchsorted (side left) among the midpoints of   *)
(* neighbouring x, clipped to the last index                               *)
InterpNearest(x, y, xq, den) ==
    LET ind == Argsort(x)
        xs == [p \in 1..Len(x) |-> x[ind[p]]]
        ys == [p \in 1..Len(x) |-> y[ind[p]]]
        below == Cardinality({p \in 1..(Len(x) - 1) : (xs[p] + xs[p + 1]) * den < 2 * xq})
    IN  ys[Min2(below, Len(x) - 1) + 1]

(* The paired mode of _interpolate: x and y.v sequences of integers,       *)
(* interp_type "nearest", the kind the callers pass, or None, which        *)
(* interp1d rejects, as it does sequences of different lengths and empty   *)
(* ones; x_int over LinspaceDen(npoints).                                  *)
PairedInterpolation(x, npoints, y, interp_type, np_random) ==
    IF interp_type # Given("nearest") THEN [raised |-> "NotImplementedError", np_random |-> np_random]
    ELSE IF Len(x) # Len(y.v) \/ Len(x) = 0 THEN [raised |-> "ValueError", np_random |-> np_random]
    ELSE LET x_int == Linspace(PyMin(x), PyMax(x), npoints)
         IN  [x_int |-> x_int,
              y_int |-> [i \in 1..npoints |-> InterpNearest(x, y.v, x_int[i], LinspaceDen(npoints))],
              np_random |-> np_random]

(* the scalar mode: np.sort of the resampling under random_state *)
SortedResample(x, npoints, random_state, np_random) ==
    LET r == resample(x, npoints, random_state, np_random)
    IN  IF Raised(r) THEN r
        ELSE [value |-> NpSort(r.value), np_random |-> r.np_random]

(* the resampling drawn from numpy's global generator (random_state=None)  *)
InterpolateUnseeded(x, npoints, y, interp_type, np_random) ==
    IF y = None THEN SortedResample(x, npoints, None, np_random)
    ELSE PairedInterpolation(x, npoints, y, interp_type, np_random)

(* the resampled values left in the order they were drawn *)
InterpolateUnsorted(x, npoints, y, interp_type, np_random) ==
    IF y = None THEN resample(x, npoints, Fin(1), np_random)
    ELSE PairedInterpolation(x, npoints, y, interp_type, np_random)

(* the new x values laid between the first and the last item of x *)
InterpolateEndsOfInput(x, npoints, y, interp_type, np_random) ==
    IF y = None THEN SortedResample(x, npoints, Fin(1), np_random)
    ELSE IF interp_type # Given("nearest") THEN [raised |-> "NotImplementedError", np_random |-> np_random]
    ELSE IF Len(x) # Len(y.v) \/ Len(x) = 0 THEN [raised |-> "ValueError", np_random |-> np_random]
    ELSE LET x_int == Linspace(x[1], x[Len(x)], npoints)
         IN  [x_int |-> x_int,
              y_int |-> [i \in 1..npoints |-> InterpNearest(x, y.v, x_int[i], LinspaceDen(npoints))],
              np_random |-> np_random]

(* _interpolate(x, npoints, y=None, interp_type=None).  Scalar mode (y is  *)
(* None): x a sequence of floats, the result the sorted resampling seeded  *)
(* by random_state=1.  np_random is the global generator as the call finds *)
(* it and, in the result, as the call leaves it.                           *)
_interpolate(x, npoints, y, interp_type, np_random) ==
    IF y = None THEN SortedResample(x, npoints, Fin(1), np_random)
    ELSE PairedInterpolation(x, npoints, y, interp_type, np_random)

----------------------------------------------------------------------------
(* Specification of _interpolate and _smooth_data, each run twice on the   *)
(* same arguments                                                          *)

MaxX == 3

MaxResample == 4

ScalarValues == {Fin(1), Fin(3), Fin(5), NaN}

PairedX == {1, 2, 5}

PairedY == {10, 20}

(* states numpy's global generator can be in when a call starts *)
GlobalStates == {0, 1, 4242}

ScalarArgs ==
    [op : {"_interpolate"}, x : SeqsUpTo(ScalarValues, MaxX), npoints : 1..MaxResample,
     y : {None}, interp_type : {None}]

PairedArgs ==
    [op : {"_interpolate"}, x : SeqsUpTo(PairedX, MaxX), npoints : 2..MaxPoints,
     y : {Given(s) : s \in SeqsUpTo(PairedY, MaxX)},
     interp_type : {Given("nearest"), None}]

RepeatedSmoothArgs ==
    [op : {"_smooth_data"}, npoints : 2..MaxPoints, sigma : {CallerSigma},
     data : SeqsUpTo(PairValues, MaxPair), min_arg : RangeArgs, max_arg : RangeArgs]

InitResample ==
    /\ pc = "start"
    /\ args \in ScalarArgs \cup PairedArgs \cup RepeatedSmoothArgs
    /\ ret = [calls |-> <<>>]
    /\ env \in {[ProcessStart EXCEPT !.np_random = g] : g \in GlobalStates}

(* what a call hands to its caller *)
Outcome(r) == [k \in DOMAIN r \ {"np_random"} |-> r[k]]

Interpolate ==
    /\ pc \in {"start", "once"}
    /\ args.op = "_interpolate"
    /\ LET r == _interpolate(args.x, args.npoints, args.y, args.interp_type, env.np_random)
       IN  /\ ret' = [calls |-> Append(ret.calls, Outcome(r))]
           /\ env' = [env EXCEPT !.np_random = r.np_random]
    /\ pc' = IF pc = "start" THEN "once" ELSE "done"
    /\ UNCHANGED args

SmoothDataAgain ==
    /\ pc \in {"start", "once"}
    /\ args.op = "_smooth_data"
    /\ ret' = [calls |-> Append(ret.calls,
                  _smooth_data(args.npoints, args.sigma, args.data, args.min_arg, args.max_arg))]
    /\ pc' = IF pc = "start" THEN "once" ELSE "done"
    /\ UNCHANGED <<args, env>>

NextResample == Interpolate \/ SmoothDataAgain

SpecResample == InitResample /\ [][NextResample]_vars

(* What the claims say of the calls of _interpolate *)

ScalarMode == args.op = "_interpolate" /\ args.y = None

PairedMode == args.op = "_interpolate" /\ args.y # None

(* the calls made so far *)
Calls == IF "calls" \in DOMAIN ret THEN DOMAIN ret.calls ELSE {}

(* C14: the core operations are deterministic: _smooth_data run twice on   *)
(* the same input and parameters, and scalar-mode _interpolate run twice   *)
(* on the same V and npoints, hand back the same outcome both times,       *)
(* whatever state the global random generator is in, the resampling being  *)
(* seeded by random_state=1 at every call.                                 *)
C14_Deterministic ==
    (pc = "done" /\ (args.op = "_smooth_data" \/ ScalarMode)) =>
        ret.calls[1] = ret.calls[2]

(* two resamplings of several different values, with the global generator  *)
(* in another state than the seeded one                                    *)
C14_Witness ==
    /\ pc = "done" /\ ScalarMode /\ ~Raised(ret.calls[2])
    /\ env.np_random # Seeded(1)
    /\ args.npoints >= 3
    /\ Cardinality(Range(args.x)) >= 3
    /\ Cardinality(Range(ret.calls[2].value)) >= 2

(* C15: scalar-mode _interpolate(x, npoints) returns exactly npoints       *)
(* values drawn from x, in non-decreasing order (np.sort: the numbers      *)
(* ascending, any NaN of x after them), for every non-empty x and every    *)
(* npoints >= 1, including npoints larger than len(x).                     *)
C15_LengthAndOrder ==
    (ScalarMode /\ Len(args.x) >= 1) =>
        \A c \in Calls :
            /\ ~Raised(ret.calls[c])
            /\ Len(ret.calls[c].value) = args.npoints
            /\ Range(ret.calls[c].value) \subseteq Range(args.x)
            /\ \A i \in 1..(args.npoints - 1) :
                  LET a == ret.calls[c].value[i]
                      b == ret.calls[c].value[i + 1]
                  IN  IF IsNaN(a) THEN IsNaN(b) ELSE (IsNaN(b) \/ a.v <= b.v)

(* more points than x has values, two different numbers among them *)
C15_Witness ==
    /\ pc = "done" /\ ScalarMode
    /\ Len(args.x) = 2 /\ args.x[1].v > args.x[2].v /\ ~IsNaN(args.x[1])
    /\ args.npoints = MaxResample
    /\ Cardinality(Range(ret.calls[1].value)) = 2

(* C16: paired-mode _interpolate(x, npoints, y, interp_type), for x and y  *)
(* of one length and a kind of interpolation that interp1d knows, returns  *)
(* an x sequence of exactly npoints values equally spaced over             *)
(* [min(x), max(x)], the first min(x) and the last max(x), with a y        *)
(* sequence of the same length, whatever the order of the input x.         *)
C16_EquallySpaced ==
    (PairedMode /\ args.interp_type # None
        /\ Len(args.x) = Len(args.y.v) /\ Len(args.x) >= 1) =>
        \A c \in Calls :
            /\ ~Raised(ret.calls[c])
            /\ Len(ret.calls[c].x_int) = args.npoints
            /\ Len(ret.calls[c].y_int) = args.npoints
            /\ \A i \in 1..args.npoints :
                  ret.calls[c].x_int[i] =
                      SetMin(Range(args.x)) * (args.npoints - 1)
                        + (i - 1) * (SetMax(Range(args.x)) - SetMin(Range(args.x)))
            /\ ret.calls[c].x_int[1] = SetMin(Range(args.x)) * (args.npoints - 1)
            /\ ret.calls[c].x_int[args.npoints] = SetMax(Range(args.x)) * (args.npoints - 1)
            /\ ret.calls[c].y_int[1] \in {args.y.v[j] : j \in {k \in DOMAIN args.x : args.x[k] = SetMin(Range(args.x))}}
            /\ Range(ret.calls[c].y_int) \subseteq Range(args.y.v)

(* an x that is neither ascending nor descending, its extremes inside *)
C16_Witness ==
    /\ pc = "done" /\ PairedMode /\ ~Raised(ret.calls[1])
    /\ Len(args.x) = 3 /\ args.npoints >= 3
    /\ args.x[2] < args.x[1] /\ args.x[2] < args.x[3] /\ args.x[3] < args.x[1]
    /\ ret.calls[1].y_int[1] # ret.calls[1].y_int[args.npoints]

----------------------------------------------------------------------------
(* The pie chart of the barcodes.  A barcode label is the number of the    *)
(* barcode; a chart is the sequence of its traces.  A chart operation      *)
(* hands back its value and its effects on the process: the float_format   *)
(* it sets (None when it sets none) and the files it writes.               *)

(* percent_format_str.format *)
PercentFormat == Given("{:.2f}%")

False == [k |-> "bool", v |-> FALSE]

(* count_sorted is a sequence of [label, count]; the table is sorted by    *)
(* label, its percentages count * 100 over sum(count_sorted), and is       *)
(* rendered under the float_format set on the line before.                 *)
_pie_chart_graph(graph_name, count_sorted, color_palette, one_d_square, result_directory) ==
    LET labels == [i \in 1..Len(count_sorted) |-> count_sorted[i].label]
        values == [i \in 1..Len(count_sorted) |-> count_sorted[i].count]
        fits == Len(labels) <= Len(color_palette)
        pie == [type |-> "pie", labels |-> labels, values |-> values,
                colors |-> IF fits THEN color_palette ELSE <<>>, visible |-> TRUE]
        bar == [type |-> "bar", labels |-> labels, values |-> values,
                colors |-> IF fits THEN color_palette ELSE <<color_palette[1]>>,
                visible |-> FALSE]
        ind == Argsort(labels)
        barcode_table ==
            [p \in 1..Len(labels) |->
                [label |-> labels[ind[p]],
                 percent |-> IF SumSeq(values) = 0 THEN NaN ELSE Fin(values[ind[p]] * 100),
                 count |-> values[ind[p]]]]
        output_file == OutputFile(result_directory, graph_name)
    IN  [value |-> Given([graph_name |-> graph_name,
                          output_file |-> output_file,
                          table_html |-> [rows |-> barcode_table,
                                          count_col_name |-> IF one_d_square THEN "1D2 read count"
                                                             ELSE "Read count",
                                          float_format |-> PercentFormat],
                          div |-> <<pie, bar>>]),
         printed |-> <<>>,
         effects |-> [float_format |-> PercentFormat, files |-> {output_file}]]

(* any(series != element): some read carries another label *)
SomeOtherLabel(series, element) == \E i \in DOMAIN series : series[i] # element

(* all(series != element): no read carries the label *)
LabelAbsent(series, element) == \A i \in DOMAIN series : series[i] # element

(* the loop over barcode_selection: the first label that no read carries,  *)
(* as a one-item sequence, or the empty sequence                           *)
RECURSIVE FirstAbsent(_, _)
FirstAbsent(barcode_selection, series) ==
    IF barcode_selection = <<>> THEN <<>>
    ELSE IF LabelAbsent(series, Head(barcode_selection)) THEN <<Head(barcode_selection)>>
    ELSE FirstAbsent(Tail(barcode_selection), series)

(* the first colours of toulligqc_colors['pie_chart_palette'] *)
PieChartPalette == <<"#f3a683", "#f7d794">>

BarcodePercentagePieChart(graph_name, count_sorted, dataframe_dict, barcode_selection, result_directory) ==
    LET absent == FirstAbsent(barcode_selection, dataframe_dict.barcode_arrangement)
    IN  IF absent # <<>> THEN [value |-> False, printed |-> absent, effects |-> NoEffects]
        ELSE _pie_chart_graph(graph_name, count_sorted, PieChartPalette, FALSE, result_directory)

barcode_percentage_pie_chart_pass(dataframe_dict, barcode_selection, result_directory) ==
    BarcodePercentagePieChart("Pass barcoded reads distribution",
                              dataframe_dict.read_pass_barcoded,
                              dataframe_dict, barcode_selection, result_directory)

barcode_percentage_pie_chart_fail(dataframe_dict, barcode_selection, result_directory) ==
    BarcodePercentagePieChart("Fail barcoded reads distribution",
                              dataframe_dict.read_fail_barcoded,
                              dataframe_dict, barcode_selection, result_directory)

----------------------------------------------------------------------------
(* Specification of the two barcode pie charts *)

MaxLabels == 3

MaxSelection == 2

(* sequences without a repeated item *)
Distinct(q) == \A i, j \in DOMAIN q : q[i] = q[j] => i = j

(* the series that value_counts gives: one count per label, descending *)
CountSeries ==
    {q \in SeqsUpTo([label : 1..MaxLabels, count : {1, 2}], MaxLabels) :
        /\ Distinct([i \in DOMAIN q |-> q[i].label])
        /\ \A i \in 1..(Len(q) - 1) : q[i].count >= q[i + 1].count}

SmallSeries == {<<>>, <<[label |-> 3, count |-> 1]>>}

(* the labels of the reads, and selections that name a barcode (9) which   *)
(* no read carries                                                         *)
Arrangements == SeqsUpTo({1, 2}, 2)

Selections == {q \in SeqsUpTo({1, 2, 9}, MaxSelection) : Distinct(q)}

DataframeDicts ==
    [barcode_arrangement : Arrangements,
     read_pass_barcoded : CountSeries, read_fail_barcoded : SmallSeries]
    \cup [barcode_arrangement : Arrangements,
          read_pass_barcoded : SmallSeries, read_fail_barcoded : CountSeries]

PieArgs ==
    [op : {"barcode_percentage_pie_chart_pass", "barcode_percentage_pie_chart_fail"},
     dataframe_dict : DataframeDicts, barcode_selection : Selections,
     result_directory : {"result"}]

InitBarcodePie ==
    /\ pc = "start"
    /\ args \in PieArgs
    /\ ret = [none |-> TRUE]
    /\ env = ProcessStart

BarcodePercentagePieChartPass ==
    /\ pc = "start"
    /\ "op" \in DOMAIN args /\ args.op = "barcode_percentage_pie_chart_pass"
    /\ LET r == barcode_percentage_pie_chart_pass(args.dataframe_dict, args.barcode_selection,
                                                  args.result_directory)
       IN  /\ ret' = [value |-> r.value, printed |-> r.printed]
           /\ env' = After(r.effects)
    /\ pc' = "done"
    /\ UNCHANGED args

BarcodePercentagePieChartFail ==
    /\ pc = "start"
    /\ "op" \in DOMAIN args /\ args.op = "barcode_percentage_pie_chart_fail"
    /\ LET r == barcode_percentage_pie_chart_fail(args.dataframe_dict, args.barcode_selection,
                                                  args.result_directory)
       IN  /\ ret' = [value |-> r.value, printed |-> r.printed]
           /\ env' = After(r.effects)
    /\ pc' = "done"
    /\ UNCHANGED args

NextBarcodePie == BarcodePercentagePieChartPass \/ BarcodePercentagePieChartFail

SpecBarcodePie == InitBarcodePie /\ [][NextBarcodePie]_vars

(* What the claims say of the barcode pie charts *)

PieDone ==
    /\ pc = "done" /\ "op" \in DOMAIN args
    /\ args.op \in {"barcode_percentage_pie_chart_pass", "barcode_percentage_pie_chart_fail"}

(* a label of the selection that no read carries *)
UnknownLabels == Range(args.barcode_selection) \ Range(args.dataframe_dict.barcode_arrangement)

(* the series the operation charts *)
Charted ==
    IF args.op = "barcode_percentage_pie_chart_pass" THEN args.dataframe_dict.read_pass_barcoded
    ELSE args.dataframe_dict.read_fail_barcoded

(* C17: barcode_percentage_pie_chart_pass and _fail return False, with no  *)
(* chart built and no file written, and do not raise, if and only if some  *)
(* label of barcode_selection does not occur in                            *)
(* dataframe_dict['barcode.arrangement']; otherwise they return            *)
(* (graph_name, output_file, table_html, div), the chart of their series.  *)
C17_FalseIffUnknownLabel ==
    PieDone =>
        /\ "value" \in DOMAIN ret
        /\ ret.value = False <=> UnknownLabels # {}
        /\ ret.value = False => env = ProcessStart
        /\ ret.value # False =>
              /\ DOMAIN ret.value.v = {"graph_name", "output_file", "table_html", "div"}
              /\ env.files = {ret.value.v.output_file}
              /\ Len(ret.value.v.div) = 2
              /\ \A t \in 1..2 :
                    /\ ret.value.v.div[t].labels = [i \in DOMAIN Charted |-> Charted[i].label]
                    /\ ret.value.v.div[t].values = [i \in DOMAIN Charted |-> Charted[i].count]

(* a selection whose first label is carried by a read that is not the      *)
(* first, and whose second label no read carries                           *)
C17_Witness ==
    /\ PieDone /\ ret.value = False
    /\ Len(args.barcode_selection) = 2
    /\ args.barcode_selection[1] \in Range(args.dataframe_dict.barcode_arrangement)
    /\ args.dataframe_dict.barcode_arrangement[1] # args.barcode_selection[1]
    /\ Len(Charted) >= 2

(* the call is given a vector of length zero *)
EmptyInput ==
    \/ args.op = "_smooth_data" /\ args.data = <<>>
    \/ ScalarMode /\ args.x = <<>>

(* C18 as stated: every core operation returns a defined zero- or          *)
(* NaN-filled result rather than failing on an empty input: _smooth_data   *)
(* and _interpolate complete without raising when given a vector of length *)
(* zero.                                                                   *)
C18_AsStated ==
    EmptyInput => \A c \in Calls : ~Raised(ret.calls[c])

----------------------------------------------------------------------------
(* Specification of the figure of _over_time_graph, its optional arguments *)
(* given                                                                   *)

MaxFigureObs == 2

GreenZoneTargets == {None, Fin(0), Fin(30)}

(* grids of GridBins edges with a reading on every edge, on every edge but *)
(* the second, on every edge but the last but one, on the two ends only    *)
FigureGridArgs ==
    {a \in GridArgs :
        \/ Len(a.time_series) >= GridBins - 1 /\ 2 * SecondsPerHour \in Range(a.time_series)
                                              /\ (GridBins - 3) * SecondsPerHour \in Range(a.time_series)
        \/ Len(a.time_series) = 2}

FigureInputs ==
    {OverTimeArgs(Column(obs, 1), Column(obs, 2), B) :
        obs \in SeqsUpTo(TimeValues \X DataValues, MaxFigureObs), B \in 2..MaxBins}
    \cup FigureGridArgs \cup {ScenarioArgs}

FigureArgs ==
    {[a EXCEPT !.quartiles = f.quartiles, !.min_max = f.min_max, !.log = f.log,
               !.yaxis_starts_zero = f.yaxis_starts_zero,
               !.green_zone_starts_at = f.green_zone_starts_at] :
        a \in FigureInputs,
        f \in [quartiles : BOOLEAN, min_max : BOOLEAN, log : BOOLEAN,
               yaxis_starts_zero : BOOLEAN, green_zone_starts_at : GreenZoneTargets]}

InitFigure ==
    /\ pc = "start"
    /\ args \in FigureArgs
    /\ ret = [none |-> TRUE]
    /\ env = ProcessStart

SpecFigure == InitFigure /\ [][NextOverTime]_vars

(* What the claims say of the figure *)

FigReturned == pc = "done" /\ "fig" \in DOMAIN ret

CurveNames == {"25% quartile", "75% quartile", "Median", "Min", "Max"}

(* the smoothed curve the ceiling is taken from: the max-curve when        *)
(* min_max is true, the Q3-curve otherwise                                 *)
CeilingCurve == IF args.min_max THEN ret.y[5] ELSE ret.y[4]

(* 1.05 times the maximum of a curve, in hundredths: the greatest number   *)
(* of the curve, or NaN for a curve that starts with NaN                   *)
Ceiling(curve) ==
    IF IsNaN(curve[1]) THEN NaN
    ELSE Fin(105 * SetMax({curve[i].v : i \in {j \in DOMAIN curve : IsFin(curve[j])}}))

(* C20: the green zone of _over_time_graph is drawn if and only if         *)
(* green_zone_starts_at is not None (0 included): then exactly two traces  *)
(* come before all the traces of the curves, both over                     *)
(* x = [min(T)/3600, max(T)/3600], the first at the ceiling and the second *)
(* at the target; the ceiling is 1.05 times the maximum, as max() takes    *)
(* it, of the smoothed max-curve when min_max is true and of the smoothed  *)
(* Q3-curve otherwise.                                                     *)
C20_GreenZone ==
    FigReturned =>
        LET curves == IF args.quartiles THEN (IF args.min_max THEN 5 ELSE 3) ELSE 1
            zone == IF args.green_zone_starts_at # None THEN 2 ELSE 0
        IN  /\ Len(ret.fig) = zone + curves
            /\ \A i \in (zone + 1)..Len(ret.fig) :
                  ret.fig[i].name \in CurveNames /\ ret.fig[i].x = ret.x
            /\ zone = 2 =>
                  /\ ret.fig[1].name \notin CurveNames /\ ret.fig[2].name \notin CurveNames
                  /\ ret.fig[1].x = <<MinTime, MaxTime>>
                  /\ ret.fig[2].x = <<MinTime, MaxTime>>
                  /\ ret.fig[1].y = <<Ceiling(CeilingCurve), Ceiling(CeilingCurve)>>
                  /\ ret.fig[2].y = <<args.green_zone_starts_at, args.green_zone_starts_at>>

(* a target of 0, with a max-curve above the Q3-curve *)
C20_Witness ==
    /\ FigReturned /\ args.green_zone_starts_at = Fin(0)
    /\ args.min_max /\ args.quartiles
    /\ IsFin(ret.fig[1].y[1])
    /\ ret.fig[1].y[1] # Ceiling(ret.y[4])
    /\ MinTime < MaxTime

----------------------------------------------------------------------------
(* _barcode_boxplot_graph.  A frame is a sequence of rows; a row carries   *)
(* passes_filtering and the columns of either frame: barcodes and qscore   *)
(* (the melted frame of the PHRED scores), or lengths, one value per       *)
(* barcode (the frame of the read lengths).                                *)

(* df.loc[df['passes_filtering'] == passes].drop(columns=...): a new frame *)
RECURSIVE RowsWhere(_, _)
RowsWhere(df, passes) ==
    IF df = <<>> THEN <<>>
    ELSE IF Head(df).passes_filtering = passes THEN <<Head(df)>> \o RowsWhere(Tail(df), passes)
    ELSE RowsWhere(Tail(df), passes)

(* df.loc[df['barcodes'] == barcode].dropna()['qscore'] *)
RECURSIVE QscoresOf(_, _)
QscoresOf(df, barcode) ==
    IF df = <<>> THEN <<>>
    ELSE IF Head(df).barcodes = barcode /\ ~IsNaN(Head(df).qscore)
         THEN <<Head(df).qscore>> \o QscoresOf(Tail(df), barcode)
    ELSE QscoresOf(Tail(df), barcode)

(* df[barcode] = df[barcode].loc[df[barcode] > 0]: the values that are not *)
(* positive become NaN, in the frame the loop works on                     *)
KeepPositive(df, barcode) ==
    [i \in 1..Len(df) |->
        [df[i] EXCEPT !.lengths[barcode] = IF FGreater(@, Fin(0)) THEN @ ELSE NaN]]

(* the loop over sorted(barcode_selection) for one read type: the frame as *)
(* the loop leaves it and the traces it adds                               *)
RECURSIVE BoxTraces(_, _, _, _, _)
BoxTraces(df, qscore, barcodes, read_type, first) ==
    IF barcodes = <<>> THEN [df |-> df, traces |-> <<>>]
    ELSE LET barcode == Head(barcodes)
             kept == IF qscore THEN df ELSE KeepPositive(df, barcode)
             d == IF qscore THEN _precompute_boxplot_values(QscoresOf(df, barcode))
                  ELSE _precompute_boxplot_values([i \in 1..Len(kept) |-> kept[i].lengths[barcode]])
             rest == BoxTraces(kept, qscore, Tail(barcodes), read_type, FALSE)
         IN  [df |-> rest.df,
              traces |-> <<[box |-> d, name |-> read_type, x0 |-> barcode,
                            showlegend |-> first]>> \o rest.traces]

(* the value, the two frames the function works on as it leaves them, and  *)
(* the effects of the call                                                 *)
_barcode_boxplot_graph(graph_name, df, qscore, barcode_selection, result_directory) ==
    LET pass == BoxTraces(RowsWhere(df, TRUE), qscore, SortAsc(barcode_selection), "Pass reads", TRUE)
        fail == BoxTraces(RowsWhere(df, FALSE), qscore, SortAsc(barcode_selection), "Fail reads", TRUE)
        output_file == OutputFile(result_directory, graph_name)
    IN  [value |-> Given([graph_name |-> graph_name, output_file |-> output_file,
                          table_html |-> None, div |-> pass.traces \o fail.traces]),
         pass_df |-> pass.df,
         fail_df |-> fail.df,
         effects |-> [float_format |-> None, files |-> {output_file}]]

----------------------------------------------------------------------------
(* Specification of a report: chart operations called one after another    *)
(* in one process                                                          *)

MaxRows == 1

QscoreRows ==
    [barcodes : {1, 2}, qscore : {Fin(3), NaN}, lengths : {<<>>}, passes_filtering : BOOLEAN]

LengthRows ==
    [barcodes : {0}, qscore : {NaN}, lengths : {<<Fin(5), Fin(0)>>, <<NaN, Fin(5)>>},
     passes_filtering : BOOLEAN]

BoxplotGraphArgs ==
    [op : {"_barcode_boxplot_graph"}, df : SeqsUpTo(QscoreRows, MaxRows), qscore : {TRUE},
     barcode_selection : {<<1>>, <<2, 1>>}, graph_name : {"barcode qscore"},
     result_directory : {"result"}]
    \cup [op : {"_barcode_boxplot_graph"}, df : SeqsUpTo(LengthRows, MaxRows), qscore : {FALSE},
          barcode_selection : {<<1>>, <<2, 1>>}, graph_name : {"barcode length"},
          result_directory : {"result"}]

ReportPieArgs ==
    [op : {"barcode_percentage_pie_chart_pass", "barcode_percentage_pie_chart_fail"},
     dataframe_dict : [barcode_arrangement : {<<1, 2>>},
                       read_pass_barcoded : {<<[label |-> 2, count |-> 2], [label |-> 1, count |-> 1]>>},
                       read_fail_barcoded : SmallSeries],
     barcode_selection : {<<1>>, <<9>>},
     result_directory : {"result"}]

ReportSmoothArgs ==
    [npoints : {2}, sigma : {CallerSigma}, data : SeqsUpTo({0, 2}, 1),
     min_arg : {None}, max_arg : {None}]

ReportBoxArgs == {[y |-> <<>>], [y |-> OutlierSample]}

ChartCalls ==
    ReportPieArgs \cup BoxplotGraphArgs \cup {ScenarioArgs}
        \cup ReportSmoothArgs \cup ReportBoxArgs

InitCharts ==
    /\ pc = "start"
    /\ args \in ChartCalls
    /\ ret = [none |-> TRUE]
    /\ env = ProcessStart

BarcodeBoxplotGraph ==
    /\ pc = "start"
    /\ "op" \in DOMAIN args /\ args.op = "_barcode_boxplot_graph"
    /\ \E r \in {_barcode_boxplot_graph(args.graph_name, args.df, args.qscore,
                                         args.barcode_selection, args.result_directory)} :
         /\ ret' = [k \in DOMAIN r \ {"effects"} |-> r[k]]
         /\ env' = After(r.effects)
    /\ pc' = "done"
    /\ UNCHANGED args

(* the report goes on to its next chart *)
NextCall ==
    /\ pc = "done"
    /\ pc' = "start"
    /\ args' \in ChartCalls
    /\ ret' = [none |-> TRUE]
    /\ UNCHANGED env

NextCharts ==
    \/ BarcodePercentagePieChartPass
    \/ BarcodePercentagePieChartFail
    \/ BarcodeBoxplotGraph
    \/ OverTimeGraph
    \/ SmoothData
    \/ PrecomputeBoxplotValues
    \/ NextCall

SpecCharts == InitCharts /\ [][NextCharts]_vars

(* C19 as stated: no chart operation changes state that outlives the call: *)
(* across every call of _pie_chart_graph, _barcode_boxplot_graph,          *)
(* _over_time_graph, _smooth_data and _precompute_boxplot_values the       *)
(* process-wide settings and the caller's inputs are unchanged.            *)
C19_AsStated ==
    [][(pc = "start" /\ pc' = "done") =>
          /\ args' = args
          /\ env'.float_format = env.float_format
          /\ env'.np_random = env.np_random]_vars

----------------------------------------------------------------------------
(* Size reduction before plotting: read_quality_multiboxplot and           *)
(* all_scatterplot.  interpolation_threshold, a constant of the module     *)
(* (10000), and the number of points asked of _interpolate (1000 and 4000) *)
(* are parameters here, so that series on both sides of the threshold are  *)
(* short.  The layout of the figures is not modelled.                      *)

(* the two traces of a column of the plotted frame: its box, and the       *)
(* violin, which holds the column                                          *)
ColumnTraces(column, name) ==
    <<[type |-> "box", box |-> _precompute_boxplot_values(column), name |-> name],
      [type |-> "violin", y |-> column, name |-> name]>>

(* The frame of the three PHRED score series (PhredFrame), its columns     *)
(* resampled when the column "1D" is longer than the threshold, and the    *)
(* traces of each column of the frame that is plotted.                     *)
read_quality_multiboxplot(dataframe_dict, result_directory, interpolation_threshold, npoints, np_random) ==
    LET graph_name == "PHRED score distribution"
        df == PhredFrame(dataframe_dict.rows)
        reduce == Len(df.all) > interpolation_threshold
        r1 == _interpolate(df.all, npoints, None, None, np_random)
        r2 == _interpolate(df.pass, npoints, None, None, r1.np_random)
        r3 == _interpolate(df.fail, npoints, None, None, r2.np_random)
        dataframe == IF reduce THEN [all |-> r1.value, pass |-> r2.value, fail |-> r3.value]
                     ELSE df
        output_file == OutputFile(result_directory, graph_name)
    IN  [value |-> Given([graph_name |-> graph_name, output_file |-> output_file,
                          table_html |-> None,
                          div |-> ColumnTraces(dataframe.all, "All reads")
                                  \o ColumnTraces(dataframe.pass, "Pass reads")
                                  \o ColumnTraces(dataframe.fail, "Fail reads")]),
         np_random |-> IF reduce THEN r3.np_random ELSE np_random,
         effects |-> [float_format |-> None, files |-> {output_file}]]

(* a series of the reads that pass (or fail): column "length" or "q" *)
RECURSIVE SeriesWhere(_, _, _)
SeriesWhere(rows, passes, column) ==
    IF rows = <<>> THEN <<>>
    ELSE IF Head(rows).passes = passes
         THEN <<Head(rows)[column]>> \o SeriesWhere(Tail(rows), passes, column)
    ELSE SeriesWhere(Tail(rows), passes, column)

(* the second branch of the size reduction: the two series as they are,    *)
(* their x over 1                                                          *)
AsGiven(length, qscore) == [x |-> length, y |-> qscore, den |-> 1]

(* a pair that _interpolate returned: x over LinspaceDen(npoints) *)
Interpolated(r, npoints) == [x |-> r.x_int, y |-> r.y_int, den |-> LinspaceDen(npoints)]

(* max_val as the lines 589 to 591 leave it: the assignment under the if   *)
(* is overwritten by the one that follows it                               *)
MaxVal(read_pass_length, read_fail_length) == PyMax(read_fail_length)

(* Both pairs are interpolated when read_pass_length is longer than the    *)
(* threshold.  interp1d raises on an empty series, and so does max() when  *)
(* the axis is trimmed.  The range of the x axis is over 1.                *)
all_scatterplot(dataframe_dict, result_directory, interpolation_threshold, npoints, np_random) ==
    LET graph_name == "Correlation between read length and PHRED score"
        read_pass_length == SeriesWhere(dataframe_dict.rows, TRUE, "length")
        read_pass_qscore == SeriesWhere(dataframe_dict.rows, TRUE, "q")
        read_fail_length == SeriesWhere(dataframe_dict.rows, FALSE, "length")
        read_fail_qscore == SeriesWhere(dataframe_dict.rows, FALSE, "q")
        reduce == Len(read_pass_length) > interpolation_threshold
        r1 == _interpolate(read_pass_length, npoints, Given(read_pass_qscore), Given("nearest"), np_random)
        r2 == _interpolate(read_fail_length, npoints, Given(read_fail_qscore), Given("nearest"), np_random)
        output_file == OutputFile(result_directory, graph_name)
    IN  IF reduce /\ Raised(r1) THEN [raised |-> r1.raised, np_random |-> np_random, effects |-> NoEffects]
        ELSE IF reduce /\ Raised(r2) THEN [raised |-> r2.raised, np_random |-> np_random, effects |-> NoEffects]
        ELSE IF read_pass_length = <<>> \/ read_fail_length = <<>>
             THEN [raised |-> "ValueError", np_random |-> np_random, effects |-> NoEffects]
        ELSE [value |-> Given([graph_name |-> graph_name, output_file |-> output_file,
                               table_html |-> None,
                               div |-> [pass_data |-> IF reduce THEN Interpolated(r1, npoints)
                                                      ELSE AsGiven(read_pass_length, read_pass_qscore),
                                        fail_data |-> IF reduce THEN Interpolated(r2, npoints)
                                                      ELSE AsGiven(read_fail_length, read_fail_qscore),
                                        xaxis_range |-> <<0, MaxVal(read_pass_length, read_fail_length)>>]]),
              np_random |-> np_random,
              effects |-> [float_format |-> None, files |-> {output_file}]]

----------------------------------------------------------------------------
(* Specification of the two charts that reduce their series *)

MaxPlotReads == 4

PlotRows == [length : {1, 5}, q : {7}, passes : BOOLEAN]

(* thresholds the series of MaxPlotReads reads lie on both sides of, and   *)
(* a number of points that is below them, as 1000 and 4000 are below 10000 *)
PlotArgs ==
    [op : {"read_quality_multiboxplot", "all_scatterplot"},
     dataframe_dict : [rows : SeqsUpTo(PlotRows, MaxPlotReads)],
     result_directory : {"result"},
     interpolation_threshold : {1, 2}, npoints : {2}]

InitPlot ==
    /\ pc = "start"
    /\ args \in PlotArgs
    /\ ret = [none |-> TRUE]
    /\ env = ProcessStart

ReadQualityMultiboxplot ==
    /\ pc = "start"
    /\ args.op = "read_quality_multiboxplot"
    /\ \E r \in {read_quality_multiboxplot(args.dataframe_dict, args.result_directory,
                                            args.interpolation_threshold, args.npoints,
                                            env.np_random)} :
         /\ ret' = [k \in DOMAIN r \ {"effects", "np_random"} |-> r[k]]
         /\ env' = [After(r.effects) EXCEPT !.np_random = r.np_random]
    /\ pc' = "done"
    /\ UNCHANGED args

AllScatterplot ==
    /\ pc = "start"
    /\ args.op = "all_scatterplot"
    /\ \E r \in {all_scatterplot(args.dataframe_dict, args.result_directory,
                                  args.interpolation_threshold, args.npoints, env.np_random)} :
         /\ ret' = [k \in DOMAIN r \ {"effects", "np_random"} |-> r[k]]
         /\ env' = [After(r.effects) EXCEPT !.np_random = r.np_random]
    /\ pc' = "done"
    /\ UNCHANGED args

NextPlot == ReadQualityMultiboxplot \/ AllScatterplot

SpecPlot == InitPlot /\ [][NextPlot]_vars

(* What the claims say of the two charts *)

PlotReturned(op) == pc = "done" /\ args.op = op /\ ~Raised(ret)

PassLengths == SeriesWhere(args.dataframe_dict.rows, TRUE, "length")

FailLengths == SeriesWhere(args.dataframe_dict.rows, FALSE, "length")

(* a plotted pair against the series it was made of: reduced to npoints    *)
(* points when the series is longer than the threshold, the series itself  *)
(* when it is not                                                          *)
ReducedExactlyWhenLong(plotted, length, qscore) ==
    IF Len(length) > args.interpolation_threshold
    THEN Len(plotted.x) = args.npoints /\ Len(plotted.y) = args.npoints
    ELSE plotted = AsGiven(length, qscore)

(* a column as its violin holds it against the column of the frame *)
ColumnReducedExactlyWhenLong(plotted, column) ==
    IF Len(column) > args.interpolation_threshold THEN Len(plotted) = args.npoints
    ELSE plotted = column

(* C21 as stated: every series longer than the threshold is reduced before *)
(* it is plotted and every other series is plotted unchanged: each of the  *)
(* three columns of read_quality_multiboxplot, and each of the pass and    *)
(* the fail (length, qscore) pair of all_scatterplot.                      *)
C21_AsStated ==
    /\ PlotReturned("read_quality_multiboxplot") =>
          /\ ColumnReducedExactlyWhenLong(ret.value.v.div[2].y, PhredFrame(args.dataframe_dict.rows).all)
          /\ ColumnReducedExactlyWhenLong(ret.value.v.div[4].y, PhredFrame(args.dataframe_dict.rows).pass)
          /\ ColumnReducedExactlyWhenLong(ret.value.v.div[6].y, PhredFrame(args.dataframe_dict.rows).fail)
    /\ PlotReturned("all_scatterplot") =>
          /\ ReducedExactlyWhenLong(ret.value.v.div.pass_data, PassLengths,
                                    SeriesWhere(args.dataframe_dict.rows, TRUE, "q"))
          /\ ReducedExactlyWhenLong(ret.value.v.div.fail_data, FailLengths,
                                    SeriesWhere(args.dataframe_dict.rows, FALSE, "q"))

(* the greater of the two greatest lengths *)
MaxValOfBoth(read_pass_length, read_fail_length) ==
    Max2(PyMax(read_fail_length), PyMax(read_pass_length))

(* no point of a plotted pair lies right of max_val *)
WithinAxis(plotted, max_val) == \A i \in DOMAIN plotted.x : plotted.x[i] <= max_val * plotted.den

(* C27 as stated: the x axis of all_scatterplot is [0, max_val] with       *)
(* max_val the greater of max(read_pass_length) and max(read_fail_length), *)
(* and no pass or fail point lies right of it.                             *)
C27_AsStated ==
    PlotReturned("all_scatterplot") =>
        /\ ret.value.v.div.xaxis_range = <<0, MaxValOfBoth(PassLengths, FailLengths)>>
        /\ WithinAxis(ret.value.v.div.pass_data, ret.value.v.div.xaxis_range[2])
        /\ WithinAxis(ret.value.v.div.fail_data, ret.value.v.div.xaxis_range[2])

----------------------------------------------------------------------------
(* ToulligqcExtractor.extract.  A config dictionary is a function from the *)
(* keys it holds to their values; an extractor is the class it was built   *)
(* of and the dictionary it was built with.                                *)

(* the truth value of a configuration value: None and the empty string are *)
(* false                                                                   *)
Truthy(value) == value # None /\ value # Given("")

(* `key in config_dictionary`, without the test of the value *)
SourceKeyPresent(config_dictionary, key) == key \in DOMAIN config_dictionary

(* `key in config_dictionary and config_dictionary[key]` *)
SourceGiven(config_dictionary, key) ==
    key \in DOMAIN config_dictionary /\ Truthy(config_dictionary[key])

(* an extractor of a class, constructed with the dictionary *)
Extractor(class, config_dictionary) == [class |-> class, config |-> config_dictionary]

(* The extractors the call appends and the names it records, in the order  *)
(* of the statements; the result holds extractors_list and result_dict as  *)
(* the call leaves them: the list extended, the entry of the names         *)
(* assigned anew.  The function has no return statement.                   *)
extract(config_dictionary, extractors_list, result_dict) ==
    LET fast5 == <<[extractor |-> Extractor("Fast5Extractor", config_dictionary),
                    name |-> "fast5.extractor"]>>
        log == IF SourceGiven(config_dictionary, "albacore_pipeline_source")
               THEN <<[extractor |-> Extractor("AlbacorePipelineLogExtractor", config_dictionary),
                       name |-> "albacore.log.extractor"]>>
               ELSE <<>>
        fastq == IF SourceGiven(config_dictionary, "fastq_source")
                 THEN <<[extractor |-> Extractor("FastqExtractor", config_dictionary),
                         name |-> "fastq.extractor"]>>
                 ELSE <<>>
        summary == IF SourceGiven(config_dictionary, "albacore_1dsqr_summary_source")
                   THEN <<[extractor |-> Extractor("Albacore1DsqrSequencingSummaryExtractor",
                                                   config_dictionary),
                           name |-> "albacore.1dsqr.stats.extractor"]>>
                   ELSE <<[extractor |-> Extractor("AlbacoreSequencingSummaryExtractor",
                                                   config_dictionary),
                           name |-> "albacore.stats.extractor"]>>
        appended == fast5 \o log \o fastq \o summary
    IN  [value |-> None,
         extractors_list |-> extractors_list \o [i \in 1..Len(appended) |-> appended[i].extractor],
         result_dict |-> [k \in DOMAIN result_dict \cup {"toulligqc.info.extractors"} |->
                             IF k = "toulligqc.info.extractors"
                             THEN [i \in 1..Len(appended) |-> appended[i].name]
                             ELSE result_dict[k]]]

----------------------------------------------------------------------------
(* Specification of extract *)

SourceKeys == {"albacore_pipeline_source", "fastq_source", "albacore_1dsqr_summary_source"}

SourceValues == {None, Given(""), Given("/data")}

(* the dictionaries over the keys the function reads *)
ConfigDictionaries == UNION {[keys -> SourceValues] : keys \in SUBSET SourceKeys}

MaxListed == 1

(* lists the caller may pass: empty, or holding extractors already *)
ExtractorLists ==
    SeqsUpTo({Extractor("Fast5Extractor", <<>>), Extractor("FastqExtractor", <<>>)}, MaxListed)

(* result dictionaries the caller may pass: empty, with another entry, or  *)
(* with names recorded before                                              *)
ResultDicts ==
    {<<>>, [sequencing_telemetry |-> <<"run">>],
     [k \in {"toulligqc.info.extractors"} |-> <<"fast5.extractor", "albacore.stats.extractor">>]}

InitExtract ==
    /\ pc = "start"
    /\ args \in [config_dictionary : ConfigDictionaries, extractors_list : ExtractorLists,
                 result_dict : ResultDicts]
    /\ ret = [none |-> TRUE]
    /\ env = ProcessStart

(* args keeps the two objects as the caller passed them, ret holds them as *)
(* the call leaves them                                                    *)
Extract ==
    /\ pc = "start"
    /\ ret' = extract(args.config_dictionary, args.extractors_list, args.result_dict)
    /\ pc' = "done"
    /\ UNCHANGED <<args, env>>

NextExtract == Extract

SpecExtract == InitExtract /\ [][NextExtract]_vars

(* What the claim says of extract *)

(* the extractors this call appended *)
Appended == SubSeq(ret.extractors_list, Len(args.extractors_list) + 1, Len(ret.extractors_list))

RecordedNames == ret.result_dict["toulligqc.info.extractors"]

(* the name recorded for an extractor of a class *)
NameOfClass(class) ==
    CASE class = "Fast5Extractor" -> "fast5.extractor"
      [] class = "AlbacorePipelineLogExtractor" -> "albacore.log.extractor"
      [] class = "FastqExtractor" -> "fastq.extractor"
      [] class = "Albacore1DsqrSequencingSummaryExtractor" -> "albacore.1dsqr.stats.extractor"
      [] class = "AlbacoreSequencingSummaryExtractor" -> "albacore.stats.extractor"

SummaryClasses == {"Albacore1DsqrSequencingSummaryExtractor", "AlbacoreSequencingSummaryExtractor"}

AppendedOf(class) == {i \in DOMAIN Appended : Appended[i].class = class}

KeyTruthy(key) ==
    /\ key \in DOMAIN args.config_dictionary
    /\ args.config_dictionary[key] \notin {None, Given("")}

(* C22: extract appends between 2 and 4 extractors after what the list     *)
(* held, the Fast5 extractor first and exactly one of the two summary      *)
(* extractors, last; the names recorded in result_dict are those of the    *)
(* appended extractors, one each and in their order; the log and the fastq *)
(* extractor are appended exactly when their source key is present with a  *)
(* true value.                                                             *)
C22_ListsAligned ==
    pc = "done" =>
        /\ SubSeq(ret.extractors_list, 1, Len(args.extractors_list)) = args.extractors_list
        /\ Len(Appended) \in 2..4
        /\ Appended[1].class = "Fast5Extractor"
        /\ {i \in DOMAIN Appended : Appended[i].class \in SummaryClasses} = {Len(Appended)}
        /\ Len(RecordedNames) = Len(Appended)
        /\ \A i \in DOMAIN Appended : RecordedNames[i] = NameOfClass(Appended[i].class)
        /\ AppendedOf("AlbacorePipelineLogExtractor") # {} <=> KeyTruthy("albacore_pipeline_source")
        /\ AppendedOf("FastqExtractor") # {} <=> KeyTruthy("fastq_source")

(* a call on a list that held an extractor, with a log source and a fastq   *)
(* key whose value is the empty string: three extractors appended, none of *)
(* them the fastq extractor                                                *)
C22_Witness ==
    /\ pc = "done"
    /\ Len(args.extractors_list) = 1
    /\ KeyTruthy("albacore_pipeline_source")
    /\ "fastq_source" \in DOMAIN args.config_dictionary
    /\ args.config_dictionary["fastq_source"] = Given("")
    /\ Len(Appended) = 3
    /\ RecordedNames[2] = "albacore.log.extractor"

----------------------------------------------------------------------------
(* The layout of a MinION flowcell and the channel occupancy chart:        *)
(* _minion_flowcell_layout and plot_performance of the chart generator,    *)
(* minion_flowcell_layout and plot_performance of                          *)
(* basecalling_stat_plotter1D.                                             *)

(* the list both layout functions start from *)
Seeds ==
    <<125, 121, 117, 113, 109, 105, 101, 97, 93, 89, 85, 81, 77, 73, 69, 65,
      61, 57, 53, 49, 45, 41, 37, 33, 29, 25, 21, 17, 13, 9, 5, 1>>

(* for s in seeds: for block in range(4): for row in range(4): the item    *)
(* appended at position p, with the given distance between blocks          *)
LayoutOf(seeds, block_step) ==
    [p \in 1..(Len(seeds) * 16) |->
        seeds[((p - 1) \div 16) + 1] + block_step * (((p - 1) % 16) \div 4) + ((p - 1) % 4)]

(* a layout whose blocks lie 64 channels apart *)
LayoutOfNarrowBlocks == LayoutOf(Seeds, 64)

_minion_flowcell_layout == LayoutOf(Seeds, 128)

(* the method of basecalling_stat_plotter1D; it does not read self *)
minion_flowcell_layout == LayoutOf(Seeds, 128)

(* the loop over flowcell_layout: the measure of the pore, 0 for a pore    *)
(* that pore_measure does not hold                                         *)
PoreValues(flowcell_layout, pore_measure) ==
    [p \in 1..Len(flowcell_layout) |->
        IF flowcell_layout[p] \in DOMAIN pore_measure THEN pore_measure[flowcell_layout[p]]
        ELSE 0]

(* list(range(1, 17)) * 32 *)
RowNumbers == [p \in 1..(16 * 32) |-> ((p - 1) % 16) + 1]

(* sorted(list(range(1, 33)) * 16) *)
ColumnNumbers == [p \in 1..(32 * 16) |-> ((p - 1) \div 16) + 1]

(* the position of the frame that holds a row and column number *)
PositionOf ==
    [r \in Range(RowNumbers) |->
        [c \in Range(ColumnNumbers) |->
            CHOOSE p \in DOMAIN RowNumbers : RowNumbers[p] = r /\ ColumnNumbers[p] = c]]

(* pd.DataFrame(d).pivot(rows, columns, values): DataFrame raises when the *)
(* columns of d differ in length; no two positions hold the same row and   *)
(* column number, so pivot does not raise                                  *)
Pivot(values) ==
    IF Len(values) # Len(RowNumbers) THEN [raised |-> "ValueError"]
    ELSE [grid |-> [r \in Range(RowNumbers) |->
                       [c \in Range(ColumnNumbers) |-> values[PositionOf[r][c]]]]]

(* the heat map of the reads of every pore, the pivot of the labels, which *)
(* the function computes and drops, and the file written                   *)
plot_performance(pore_measure, result_directory) ==
    LET graph_name == "Channel occupancy of the flowcell"
        output_file == OutputFile(result_directory, graph_name)
        flowcell_layout == _minion_flowcell_layout
        pore_values == PoreValues(flowcell_layout, pore_measure)
        d == Pivot(pore_values)
        labels == Pivot(flowcell_layout)
    IN  IF Raised(d) THEN [raised |-> d.raised, effects |-> NoEffects]
        ELSE [value |-> Given([graph_name |-> graph_name, output_file |-> output_file,
                               table_html |-> None]),
              heatmap |-> d.grid,
              labels |-> labels.grid,
              effects |-> [float_format |-> None, files |-> {output_file}]]

(* the method of basecalling_stat_plotter1D: the heat map goes to          *)
(* images/image6.png and to the pdf, the method returns None               *)
plot_performance_1D(pore_measure) ==
    LET flowcell_layout == minion_flowcell_layout
        pore_values == PoreValues(flowcell_layout, pore_measure)
        d == Pivot(pore_values)
    IN  IF Raised(d) THEN [raised |-> d.raised, effects |-> NoEffects]
        ELSE [value |-> None,
              heatmap |-> d.grid,
              labels |-> Pivot(flowcell_layout).grid,
              effects |-> [float_format |-> None, files |-> {OutputFile("images", "image6.png")}]]

----------------------------------------------------------------------------
(* Specification of the two channel occupancy charts *)

(* channels at the ends of the blocks of the layout, and one the flowcell  *)
(* does not have                                                           *)
MeasuredChannels == {1, 128, 129, 512, 600}

ReadCounts == {2, 7}

PoreMeasures == UNION {[channels -> ReadCounts] : channels \in SUBSET MeasuredChannels}

InitFlowcell ==
    /\ pc = "start"
    /\ args \in [op : {"plot_performance", "basecalling_stat_plotter1D.plot_performance"},
                 pore_measure : PoreMeasures, result_directory : {"result"}]
    /\ ret = [none |-> TRUE]
    /\ env = ProcessStart

PlotPerformance ==
    /\ pc = "start"
    /\ args.op = "plot_performance"
    /\ \E r \in {plot_performance(args.pore_measure, args.result_directory)} :
         /\ ret' = [k \in DOMAIN r \ {"effects"} |-> r[k]]
         /\ env' = After(r.effects)
    /\ pc' = "done"
    /\ UNCHANGED args

PlotPerformance1D ==
    /\ pc = "start"
    /\ args.op = "basecalling_stat_plotter1D.plot_performance"
    /\ \E r \in {plot_performance_1D(args.pore_measure)} :
         /\ ret' = [k \in DOMAIN r \ {"effects"} |-> r[k]]
         /\ env' = After(r.effects)
    /\ pc' = "done"
    /\ UNCHANGED args

NextFlowcell == PlotPerformance \/ PlotPerformance1D

SpecFlowcell == InitFlowcell /\ [][NextFlowcell]_vars

(* What the claim says of the layout *)

Channels == 1..512

(* every channel number exactly once, and nothing else *)
PermutationOfChannels(layout) ==
    /\ Len(layout) = Cardinality(Channels)
    /\ Range(layout) = Channels

(* the reads of a channel: its measure, 0 when it has none *)
ReadsOf(channel) ==
    IF channel \in DOMAIN args.pore_measure THEN args.pore_measure[channel] ELSE 0

(* C23: both layout functions return 512 entries, every channel number     *)
(* from 1 to 512 exactly once, and the chart that plot_performance builds  *)
(* of a layout has 16 rows and 32 columns whose cells are the channels,    *)
(* each once, every cell holding the reads measured for its channel, or 0. *)
C23_LayoutIsPermutation ==
    /\ PermutationOfChannels(_minion_flowcell_layout)
    /\ PermutationOfChannels(minion_flowcell_layout)
    /\ pc = "done" =>
          /\ ~Raised(ret)
          /\ DOMAIN ret.heatmap = 1..16
          /\ \A r \in 1..16 : DOMAIN ret.heatmap[r] = 1..32
          /\ {ret.labels[r][c] : r \in 1..16, c \in 1..32} = Channels
          /\ \A r \in 1..16 : \A c \in 1..32 : ret.heatmap[r][c] = ReadsOf(ret.labels[r][c])

(* a chart of measures that hold the last channel and a channel the        *)
(* flowcell does not have: the measure of channel 512 is in the last row   *)
(* of the column of seed 125                                               *)
C23_Witness ==
    /\ pc = "done"
    /\ args.op = "plot_performance"
    /\ DOMAIN args.pore_measure = {512, 600}
    /\ args.pore_measure[512] = 7
    /\ ret.heatmap[16][1] = 7
    /\ ret.labels[16][1] = 512
    /\ ret.heatmap[1][1] = 0

----------------------------------------------------------------------------
(* basecalling_stat_plotter1D.  The lists of the process live in a heap, a *)
(* sequence of lists; an attribute that holds a list holds its position in *)
(* the heap, so that two attributes can name one list.  The summary is the *)
(* column barcode_arrangement of sequencing_summary; pdf is the sequence   *)
(* of the pages saved to self.pdf.                                         *)

(* the labels in the order of str *)
LabelOrder == <<"barcode01", "barcode02", "barcode03", "unclassified">>

Rank(label) == CHOOSE i \in DOMAIN LabelOrder : LabelOrder[i] = label

(* list.sort() of labels *)
SortLabels(labels) ==
    LET ranks == SortAsc([i \in 1..Len(labels) |-> Rank(labels[i])])
    IN  [i \in 1..Len(labels) |-> LabelOrder[ranks[i]]]

(* __init__: selection is the list that getter1D.get_barcode() returned,   *)
(* selection_original is the same list, and the list is sorted in place    *)
PlotterProcess(barcodes, sequencing_summary) ==
    [float_format |-> None, np_random |-> 0, files |-> {},
     heap |-> <<SortLabels(barcodes)>>,
     self |-> [sequencing_summary |-> sequencing_summary,
               selection |-> 1, selection_original |-> 1, pdf |-> <<>>]]

(* meanqscore_barcode: a line appended to the file statistics/<barcode> of *)
(* every label of self.selection                                           *)
meanqscore_barcode(self, heap) ==
    [value |-> None,
     heap |-> heap,
     self |-> self,
     effects |-> [float_format |-> None,
                  files |-> {OutputFile("statistics", barcode) : barcode \in Range(heap[self.selection])}]]

(* barcode.value_counts()[label] *)
ValueCount(series, label) == Cardinality({i \in DOMAIN series : series[i] = label})

(* sum(count1[~count1.index.isin(selection)]) *)
UnclassifiedCount(series, selection) ==
    Cardinality({i \in DOMAIN series : series[i] \notin Range(selection)})

(* count['unclassified'] = unclassified: every entry of that label is set, *)
(* and an entry is added when there is none                                *)
WithUnclassified(count, unclassified) ==
    IF \E i \in DOMAIN count : count[i].label = "unclassified"
    THEN [i \in DOMAIN count |->
             IF count[i].label = "unclassified" THEN [count[i] EXCEPT !.count = unclassified]
             ELSE count[i]]
    ELSE Append(count, [label |-> "unclassified", count |-> unclassified])

(* the list with "unclassified" appended before the labels are looked up *)
PieChartSelectionAppendedFirst(selection, absent) == Append(selection, "unclassified")

(* self.selection as the method leaves it: the return on an absent label   *)
(* comes before the append                                                 *)
PieChartSelection(selection, absent) ==
    IF absent # <<>> THEN selection ELSE Append(selection, "unclassified")

(* barcode_pie_chart.  sizes are over total.  ax1.pie raises when it gets  *)
(* as many labels as sizes it does not have, and so do the tick labels of  *)
(* the bar chart drawn for more than 10 labels; by then the list has been  *)
(* appended to.                                                            *)
barcode_pie_chart(self, heap) ==
    LET selection == heap[self.selection]
        barcode == self.sequencing_summary
        absent == FirstAbsent(selection, barcode)
        after == PieChartSelection(selection, absent)
        count == WithUnclassified([i \in 1..Len(selection) |->
                                      [label |-> selection[i],
                                       count |-> ValueCount(barcode, selection[i])]],
                                  UnclassifiedCount(barcode, selection))
        total == Len(barcode)
        chart == [kind |-> IF Len(after) <= 10 THEN "pie" ELSE "bar",
                  sizes |-> [i \in 1..Len(count) |-> 100 * count[i].count],
                  total |-> total,
                  labels |-> after]
    IN  IF absent # <<>>
        THEN [value |-> False, printed |-> absent,
              heap |-> [heap EXCEPT ![self.selection] = after], self |-> self,
              effects |-> NoEffects]
        ELSE IF Len(count) # Len(after)
        THEN [raised |-> "ValueError", printed |-> <<>>,
              heap |-> [heap EXCEPT ![self.selection] = after], self |-> self,
              effects |-> NoEffects]
        ELSE [value |-> None, printed |-> <<>>,
              heap |-> [heap EXCEPT ![self.selection] = after],
              self |-> [self EXCEPT !.pdf = Append(@, chart)],
              effects |-> [float_format |-> None, files |-> {OutputFile("images", "image5.png")}]]

(* the loop of statistics_dataframe over self.selection[:-1]: the labels   *)
(* whose file is opened, up to the first one that has no file              *)
RECURSIVE StatisticsRead(_, _)
StatisticsRead(labels, files) ==
    IF labels = <<>> THEN [read |-> <<>>, missing |-> FALSE]
    ELSE IF OutputFile("statistics", Head(labels)) \notin files
         THEN [read |-> <<>>, missing |-> TRUE]
    ELSE LET rest == StatisticsRead(Tail(labels), files)
         IN  [read |-> <<Head(labels)>> \o rest.read, missing |-> rest.missing]

(* statistics_dataframe: a frame with a column per item of self.selection, *)
(* the statistics of every item but the last read from its file, and the   *)
(* frame written with self.selection_original as its header; to_csv raises *)
(* when the header has not as many names as the frame has columns.         *)
statistics_dataframe(self, heap, files) ==
    LET selection == heap[self.selection]
        loop == StatisticsRead(SubSeq(selection, 1, Len(selection) - 1), files)
        header == heap[self.selection_original]
        csv == OutputFile("/home/ferrato/ownCloud/fast5_1D", "dataframe.csv")
    IN  IF loop.missing
        THEN [raised |-> "FileNotFoundError", read |-> loop.read, heap |-> heap, self |-> self,
              effects |-> NoEffects]
        ELSE IF Len(header) # Len(selection)
        THEN [raised |-> "ValueError", read |-> loop.read, heap |-> heap, self |-> self,
              effects |-> NoEffects]
        ELSE [value |-> None, read |-> loop.read, columns |-> selection, header |-> header,
              heap |-> heap, self |-> self,
              effects |-> [float_format |-> None, files |-> {csv}]]

----------------------------------------------------------------------------
(* Specification of a plotter: constructed, then its methods called one    *)
(* after another                                                           *)

MaxSelected == 2

MaxSummaryRows == 3

MaxCalls == 3

(* the lists getter1D.get_barcode() may return: barcode03 is on no read *)
BarcodeLists ==
    {q \in SeqsUpTo({"barcode01", "barcode02", "barcode03"}, MaxSelected) : Distinct(q)}

(* the barcode of every read of the summary *)
BarcodeArrangements == SeqsUpTo({"barcode01", "barcode02", "unclassified"}, MaxSummaryRows)

InitPlotter ==
    /\ pc = "constructed"
    /\ args \in [barcodes : BarcodeLists, sequencing_summary : BarcodeArrangements]
    /\ ret = [calls |-> <<>>]
    /\ env = PlotterProcess(args.barcodes, args.sequencing_summary)

(* the state after a method call: what the call handed back is recorded,   *)
(* the heap and the object are as the call leaves them                     *)
Called(op, r) ==
    /\ ret' = [calls |-> Append(ret.calls,
                  [k \in (DOMAIN r \ {"effects", "heap", "self"}) \cup {"op"} |->
                      IF k = "op" THEN op ELSE r[k]])]
    /\ env' = [After(r.effects) EXCEPT !.heap = r.heap, !.self = r.self]
    /\ pc' = "called"
    /\ UNCHANGED args

MeanqscoreBarcode ==
    /\ Len(ret.calls) < MaxCalls
    /\ \E r \in {meanqscore_barcode(env.self, env.heap)} : Called("meanqscore_barcode", r)

BarcodePieChart ==
    /\ Len(ret.calls) < MaxCalls
    /\ \E r \in {barcode_pie_chart(env.self, env.heap)} : Called("barcode_pie_chart", r)

StatisticsDataframe ==
    /\ Len(ret.calls) < MaxCalls
    /\ \E r \in {statistics_dataframe(env.self, env.heap, env.files)} :
         Called("statistics_dataframe", r)

NextPlotter == MeanqscoreBarcode \/ BarcodePieChart \/ StatisticsDataframe

SpecPlotter == InitPlotter /\ [][NextPlotter]_vars

(* What the claims say of the plotter *)

Selection == env.heap[env.self.selection]

SelectionOriginal == env.heap[env.self.selection_original]

LastCall == ret.calls[Len(ret.calls)]

(* some selected barcode is on no read of the summary *)
SomeSelectedAbsent == \E e \in Range(Selection) : e \notin Range(env.self.sequencing_summary)

ReturnedFalse(call) == ~Raised(call) /\ call.value = False

(* C24: a call of barcode_pie_chart returns False exactly when some        *)
(* selected barcode is absent from the summary, and then leaves            *)
(* self.selection, the saved files and the pdf as they were; every other   *)
(* call leaves self.selection with exactly one "unclassified" appended at  *)
(* its end.                                                                *)
C24_FailureLeavesState ==
    [][(Len(ret'.calls) = Len(ret.calls) + 1 /\ LastCall'.op = "barcode_pie_chart") =>
          /\ SomeSelectedAbsent <=> ReturnedFalse(LastCall')
          /\ ReturnedFalse(LastCall') => env' = env
          /\ ~ReturnedFalse(LastCall') => Selection' = Append(Selection, "unclassified")]_vars

(* a successful call followed by a failed one, on a summary without        *)
(* unclassified reads: the list holds the one "unclassified" of the first  *)
(* call, and one figure is saved                                           *)
C24_Witness ==
    /\ Len(ret.calls) = 2
    /\ ret.calls[1].op = "barcode_pie_chart" /\ ~Raised(ret.calls[1]) /\ ret.calls[1].value = None
    /\ ret.calls[2].op = "barcode_pie_chart" /\ ReturnedFalse(ret.calls[2])
    /\ Selection = Append(SortLabels(args.barcodes), "unclassified")
    /\ Len(args.barcodes) = 2
    /\ Len(env.self.pdf) = 1

(* C25 as stated: whatever calls were made, selection_original is the      *)
(* sorted list of the barcodes selected at construction and does not hold  *)
(* "unclassified".                                                         *)
C25_AsStated ==
    /\ SelectionOriginal = SortLabels(args.barcodes)
    /\ "unclassified" \notin Range(SelectionOriginal)

(* C26 as stated: a call of statistics_dataframe that returns has read the *)
(* statistics of every barcode selected at construction and of no other    *)
(* label, whatever calls came before it.                                   *)
C26_AsStated ==
    \A c \in DOMAIN ret.calls :
        (ret.calls[c].op = "statistics_dataframe" /\ ~Raised(ret.calls[c])) =>
            Range(ret.calls[c].read) = Range(args.barcodes)

----------------------------------------------------------------------------
(* _format_float.  A float is a sign, an integer part and a fractional     *)
(* part in thousandths; a string is a sequence of characters.              *)

DigitChars == <<"0", "1", "2", "3", "4", "5", "6", "7", "8", "9">>

(* the decimal digits of a natural number *)
RECURSIVE Digits(_)
Digits(n) == IF n < 10 THEN <<DigitChars[n + 1]>> ELSE Digits(n \div 10) \o <<DigitChars[(n % 10) + 1]>>

(* the digits of a fraction in thousandths as repr writes them: no zero at *)
(* the end, and one digit at least                                         *)
FractionDigits(thousandths) ==
    IF thousandths % 100 = 0 THEN Digits(thousandths \div 100)
    ELSE IF thousandths % 10 = 0
         THEN <<DigitChars[(thousandths \div 100) + 1], DigitChars[((thousandths \div 10) % 10) + 1]>>
    ELSE <<DigitChars[(thousandths \div 100) + 1], DigitChars[((thousandths \div 10) % 10) + 1],
           DigitChars[(thousandths % 10) + 1]>>

(* str(f) of a float that is written in plain decimal notation *)
Str(f) ==
    (IF f.negative THEN <<"-">> ELSE <<>>) \o Digits(f.integer) \o <<".">> \o FractionDigits(f.fraction)

(* the position of the first "." of a string *)
DotOf(s) == CHOOSE p \in DOMAIN s : s[p] = "." /\ \A q \in 1..(p - 1) : s[q] # "."

(* s.split('.')[0] and s.split('.')[1] of a string with one "." *)
BeforeDot(s) == SubSeq(s, 1, DotOf(s) - 1)

AfterDot(s) == SubSeq(s, DotOf(s) + 1, Len(s))

DigitValue(c) == (CHOOSE d \in DOMAIN DigitChars : DigitChars[d] = c) - 1

(* the number a string of digits writes *)
RECURSIVE Natural(_)
Natural(s) ==
    IF s = <<>> THEN 0 ELSE 10 * Natural(SubSeq(s, 1, Len(s) - 1)) + DigitValue(s[Len(s)])

(* int(s): "-0" is 0 *)
Int_(s) == IF Head(s) = "-" THEN 0 - Natural(Tail(s)) ELSE Natural(s)

(* float('0.' + s), in thousandths, of up to three digits *)
FloatOfFraction(s) ==
    Natural(s) * (CASE Len(s) = 1 -> 100 [] Len(s) = 2 -> 10 [] OTHER -> 1)

(* the digits of a natural number in groups of three from the right *)
RECURSIVE Grouped(_)
Grouped(digits) ==
    IF Len(digits) <= 3 THEN digits
    ELSE Grouped(SubSeq(digits, 1, Len(digits) - 3)) \o <<",">>
            \o SubSeq(digits, Len(digits) - 2, Len(digits))

(* '{:,d}'.format(i) *)
FormatThousands(i) ==
    IF i < 0 THEN <<"-">> \o Grouped(Digits(0 - i)) ELSE Grouped(Digits(i))

(* thousandths rounded to hundredths; the model holds no fraction that     *)
(* lies halfway between two hundredths                                     *)
RoundToHundredths(thousandths) == (thousandths + 5) \div 10

(* '{:.2f}'.format(x) of a number that is not negative, in thousandths *)
FormatTwoDecimals(thousandths) ==
    LET hundredths == RoundToHundredths(thousandths)
    IN  Digits(hundredths \div 100) \o <<".">>
            \o <<DigitChars[((hundredths \div 10) % 10) + 1], DigitChars[(hundredths % 10) + 1]>>

(* the integer part and the fractional part are read off str(f) and        *)
(* formatted one after the other, the fractional part without the          *)
(* character before its point                                              *)
_format_float(f) ==
    LET s == Str(f)
        i == Int_(BeforeDot(s))
        fraction == FloatOfFraction(AfterDot(s))
    IN  FormatThousands(i) \o Tail(FormatTwoDecimals(fraction))

----------------------------------------------------------------------------
(* Specification of _format_float *)

IntegerParts == {0, 1, 12, 999, 1000, 1234567}

(* fractions in thousandths, none of them halfway between two hundredths *)
FractionParts == {0, 1, 4, 250, 500, 994, 996, 999}

(* the floats of the model; zero has no sign here *)
PlainFloats ==
    {f \in [negative : BOOLEAN, integer : IntegerParts, fraction : FractionParts] :
        f.negative => (f.integer # 0 \/ f.fraction # 0)}

InitFormat ==
    /\ pc = "start"
    /\ args \in [f : PlainFloats]
    /\ ret = [none |-> TRUE]
    /\ env = ProcessStart

FormatFloat ==
    /\ pc = "start"
    /\ ret' = [value |-> _format_float(args.f)]
    /\ pc' = "done"
    /\ UNCHANGED <<args, env>>

NextFormat == FormatFloat

SpecFormat == InitFormat /\ [][NextFormat]_vars

(* What the claim says of _format_float *)

(* f rounded to two decimal places, with its sign, comma separators in the *)
(* integer part and two decimals                                           *)
RoundedRendering(f) ==
    LET hundredths == RoundToHundredths(f.integer * 1000 + f.fraction)
    IN  (IF f.negative THEN <<"-">> ELSE <<>>)
            \o Grouped(Digits(hundredths \div 100)) \o <<".">>
            \o <<DigitChars[((hundredths \div 10) % 10) + 1], DigitChars[(hundredths % 10) + 1]>>

(* C28 as stated: _format_float(f) is f rounded to two decimal places with *)
(* comma separators in the integer part, for every f written in plain      *)
(* decimal notation, a fraction that rounds up to the next integer and a   *)
(* negative f above -1 included.                                           *)
C28_AsStated == pc = "done" => ret.value = RoundedRendering(args.f)

====
